---- MODULE Spec2Model ----
(***************************************************************************)
(* A model of the chunked recording writer of rfr: the sequence chunk      *)
(* buffer (src/rfr/src/chunked/sequence.rs) and the chunked writer with    *)
(* its flusher, acknowledgement notifiers and close protocol               *)
(* (src/rfr/src/chunked/write.rs).                                         *)
(*                                                                         *)
(* Time is the system clock in microseconds since the epoch.  Absolute     *)
(* timestamps are records [secs, subsec_micros] as in rec.rs, chunk        *)
(* timestamps are microseconds since the base second of a chunk.           *)
(***************************************************************************)
EXTENDS Integers, Sequences, FiniteSets, TLC

(***************************************************************************)
(* Program constants.                                                      *)
(***************************************************************************)
\* write.rs:63   let chunk_period_micros = 1_000_000;
ChunkPeriodMicros == 1000000
\* write.rs:215  let write_time_buffer = Duration::from_millis(150);
WriteTimeBufferMillis == 150
\* mod.rs:864    microseconds in one second
MicrosPerSec == 1000000

WriteTimeBufferMicros == WriteTimeBufferMillis * 1000

(***************************************************************************)
(* Bounds of the model.                                                    *)
(***************************************************************************)
\* The clock starts at StartMicros, the moment the writer is constructed.  It
\* advances in steps of TickMicros for at most WindowMicros, and at most
\* MaxSleeps times by a whole chunk period in one step (all threads asleep),
\* after which TickMicros steps cover another WindowMicros.
TickMicros == 50000
StartMicros == 950000
WindowMicros == 250000
MaxSleeps == 1
\* Records accepted by the writer in one behaviour.
MaxRecords == 2
\* Sequence buffer under test: calls of append_record and largest
\* instrumentation id.
MaxAppends == 2
MaxIid == 2

Producers == {1, 2}
Waiters == {1, 2}
CallsiteIds == {1}
\* Record timestamps of the sequence buffer under test: an earlier and a later one.
SeqTimestamps == {0, 1}

None == "None"

Min(a, b) == IF a <= b THEN a ELSE b
Max(a, b) == IF a >= b THEN a ELSE b

(***************************************************************************)
(* rec.rs: AbsTimestamp                                                    *)
(***************************************************************************)
\* impl From<Duration> for AbsTimestamp
AbsFromDuration(micros) ==
    [secs |-> micros \div MicrosPerSec, subsec_micros |-> micros % MicrosPerSec]

\* AbsTimestamp::as_duration_since_epoch
as_duration_since_epoch(t) == t.secs * MicrosPerSec + t.subsec_micros

\* impl Ord for AbsTimestamp: seconds first, then the sub-second part
AbsCmpGreater(a, b) ==
    IF a.secs = b.secs THEN a.subsec_micros > b.subsec_micros ELSE a.secs > b.secs

\* Duration::saturating_sub
saturating_sub(a, b) == IF a >= b THEN a - b ELSE 0

(***************************************************************************)
(* chunked/mod.rs: chunk timestamps and intervals                          *)
(***************************************************************************)
\* ChunkTimestamp::from_base_and_timestamp
from_base_and_timestamp(base_time, t) ==
    saturating_sub(t.secs, base_time) * MicrosPerSec + t.subsec_micros

\* abs_timestamp (ChunkTimestamp::to_abs_timestamp)
abs_timestamp(base_time, chunk_ts) ==
    [secs |-> base_time + (chunk_ts \div MicrosPerSec),
     subsec_micros |-> chunk_ts % MicrosPerSec]

\* The variant of from_timestamp_and_period whose interval ends at the next
\* whole second.
from_timestamp_and_period_to_second(t, period_micros) ==
    [base_time |-> t.secs,
     start_time |-> t.subsec_micros - (t.subsec_micros % period_micros),
     end_time |-> MicrosPerSec]

\* ChunkInterval::from_timestamp_and_period
from_timestamp_and_period(t, period_micros) ==
    LET base_start ==
            IF period_micros > MicrosPerSec
            THEN <<t.secs - (t.secs % (period_micros \div MicrosPerSec)), 0>>
            ELSE <<t.secs, t.subsec_micros - (t.subsec_micros % period_micros)>>
    IN  [base_time |-> base_start[1],
         start_time |-> base_start[2],
         end_time |-> base_start[2] + period_micros]

\* ChunkInterval::abs_start_time / abs_end_time
abs_start_time(interval) == abs_timestamp(interval.base_time, interval.start_time)
abs_end_time(interval) == abs_timestamp(interval.base_time, interval.end_time)

\* ChunkHeader::new
ChunkHeaderNew(interval) ==
    [interval |-> interval,
     earliest_timestamp |-> interval.end_time,
     latest_timestamp |-> interval.start_time]

(***************************************************************************)
(* chunked/sequence.rs: SeqChunkBuffer                                     *)
(***************************************************************************)
TaskKinds == {"TaskNew", "TaskPollStart", "TaskPollEnd", "TaskDrop"}
WakerKinds == {"WakerWake", "WakerWakeByRef", "WakerClone", "WakerDrop"}
SpanKinds == {"SpanNew", "SpanEnter", "SpanExit", "SpanClose"}

\* Record data.  context = 0 stands for a waker with context: None.
TaskData(kind, iid) == [kind |-> kind, iid |-> iid]
WakerData(kind, task_iid, context) ==
    [kind |-> kind, task_iid |-> task_iid, context |-> context]
\* rid identifies the event's payload (its field values).
EventData(callsite_id, rid) == [kind |-> "Event", callsite_id |-> callsite_id, rid |-> rid]

MkRecord(timestamp, data) == [timestamp |-> timestamp, data |-> data]

\* SeqChunkBuffer::new
SeqChunkBufferNew(interval, seq_id) ==
    [interval |-> interval,
     header |-> [seq_id |-> seq_id,
                 earliest_timestamp |-> interval.end_time,
                 latest_timestamp |-> interval.start_time],
     objects |-> {},
     missing_objects |-> {},
     record_count |-> 0,
     records |-> <<>>]

\* append_record, lines 164-199: the iids the resolver is asked for
missing_task_ids(buffer, data) ==
    IF data.kind \in TaskKinds
    THEN IF data.iid \notin buffer.objects THEN <<data.iid>> ELSE <<>>
    ELSE IF data.kind \in WakerKinds
    THEN (IF data.task_iid \notin buffer.objects THEN <<data.task_iid>> ELSE <<>>)
         \o (IF /\ data.context # 0
                /\ data.context # data.task_iid
                /\ data.context \notin buffer.objects
             THEN <<data.context>> ELSE <<>>)
    ELSE <<>>

\* The first position of the zipped (iid, option) pairs that holds None,
\* 0 when there is none: the loop of lines 203-218 returns there.
FirstNone(ids, response) ==
    LET n == Min(Len(ids), Len(response))
        nones == {i \in 1..n : response[i] = None}
    IN  IF nones = {} THEN 0 ELSE CHOOSE i \in nones : \A j \in nones : i <= j

\* Variant: the record is stored even when the resolver answered None.
append_record_keep(buffer, record, response) ==
    LET ids == missing_task_ids(buffer, record.data)
        n == Min(Len(ids), Len(response))
    IN  [buffer EXCEPT
            !.objects = @ \cup {ids[i] : i \in {j \in 1..n : response[j] # None}},
            !.missing_objects = @ \cup {ids[i] : i \in {j \in 1..n : response[j] = None}},
            !.header.earliest_timestamp =
                IF buffer.record_count = 0 THEN record.timestamp ELSE @,
            !.header.latest_timestamp = record.timestamp,
            !.records = Append(@, record),
            !.record_count = @ + 1]

\* Variant: only the object of the first requested iid is stored.
append_record_first_object(buffer, record, response) ==
    LET ids == missing_task_ids(buffer, record.data)
        n == Min(Len(ids), Len(response))
        k == FirstNone(ids, response)
    IN  IF k # 0
        THEN [buffer EXCEPT
                !.objects = @ \cup {ids[i] : i \in 1..Min(1, k - 1)},
                !.missing_objects = @ \cup {ids[k]}]
        ELSE [buffer EXCEPT
                !.objects = @ \cup {ids[i] : i \in 1..Min(1, n)},
                !.header.earliest_timestamp =
                    IF buffer.record_count = 0 THEN record.timestamp ELSE @,
                !.header.latest_timestamp = record.timestamp,
                !.records = Append(@, record),
                !.record_count = @ + 1]

\* SeqChunkBuffer::append_record with the resolver's answer `response`
\* (one "Some" or None per position).
append_record(buffer, record, response) ==
    LET ids == missing_task_ids(buffer, record.data)
        n == Min(Len(ids), Len(response))
        k == FirstNone(ids, response)
    IN  IF k # 0
        THEN [buffer EXCEPT
                !.objects = @ \cup {ids[i] : i \in 1..(k - 1)},
                !.missing_objects = @ \cup {ids[k]}]
        ELSE [buffer EXCEPT
                !.objects = @ \cup {ids[i] : i \in 1..n},
                !.header.earliest_timestamp =
                    IF buffer.record_count = 0 THEN record.timestamp ELSE @,
                !.header.latest_timestamp = record.timestamp,
                !.records = Append(@, record),
                !.record_count = @ + 1]

\* SeqChunkBuffer::write: what is emitted for the buffer
SeqChunkWrite(buffer) ==
    [header |-> buffer.header,
     objects |-> buffer.objects,
     record_count |-> buffer.record_count,
     records |-> buffer.records]

(***************************************************************************)
(* State.                                                                  *)
(***************************************************************************)
VARIABLES
    now,                \* the system clock, microseconds since the epoch
    \* ChunkedWriter
    chunk_buffers,      \* Vec<ChunkBuffer>: [header, seq_chunks (buffer ids)]
    seq_buffers,        \* the SeqChunkBuffers behind the Arcs, by id
    notifiers,          \* Vec<ChunkWriteNotifier>: [ts, w]
    closed,             \* AtomicBool
    callsites,          \* ChunkedCallsitesWriter.chunked_callsites.callsites
    written_callsites,  \* ChunkedCallsitesWriter.written_callsites
    callsites_file,     \* the callsites written to callsites.rfr
    disk,               \* chunk files by path
    \* producer threads
    local_buffer,       \* thread local SEQ_CHUNK_BUFFER (0 is None)
    ppc,                \* "idle" or "stamped"
    pts,                \* the timestamp the producer took
    accepted,           \* the absolute timestamp of every record accepted, by rid
    \* the flusher thread inside write_completed_chunks
    fpc, fidx, fj, fe, facc,
    \* threads in wait_for_write_timeout
    wpc,                \* "idle", "waiting", or what the call returned
    notifier_val,       \* the Option<WaitForWrite> of the caller's notifier
    \* the sequence buffer exercised on its own
    ncalls,             \* calls of append_record made
    requested,          \* how often each iid was passed to the resolver
    last_none,          \* the resolver answered None for a requested iid in the last call
    resolver_ok,        \* every resolver so far returned one option per requested iid
    seq_written,        \* <<the SeqChunk that SeqChunkBuffer::write emitted last>>
    \* history
    registered_before,  \* rids whose callsite was registered when they were appended
    wcc_start,          \* when write_completed_chunks began: the table, which of its
                        \* chunks had ended more than the write time buffer ago, the
                        \* sequence buffers and the disk
    wait_snapshot,      \* per waiter: rids accepted before the call in the call's interval
    closed_on,          \* waiters that were blocked and unsignalled when close ran
    \* a component exercised on its own: a record of that component's state
    unit

writer_vars == <<chunk_buffers, seq_buffers, disk>>
callsite_vars == <<callsites, written_callsites, callsites_file>>
producer_vars == <<local_buffer, ppc, pts, accepted, registered_before>>
flusher_vars == <<fpc, fidx, fj, fe, facc, wcc_start>>
ack_vars == <<notifiers, closed, wpc, notifier_val, wait_snapshot, closed_on>>
seq_vars == <<ncalls, requested, last_none, resolver_ok, seq_written>>
\* all the state of the writer and of the sequence buffer
program_vars ==
    <<now, writer_vars, callsite_vars, producer_vars, flusher_vars, ack_vars, seq_vars>>
vars == <<program_vars, unit>>

Iids == 1..MaxIid
NoUnit == [component |-> "none"]
NoStart == [done |-> {}, table |-> <<>>, bufs |-> <<>>, disk |-> <<>>]

\* AbsTimestamp::now()
AbsNow == AbsFromDuration(now)

\* Everything but the sequence buffers: the writer as ChunkedWriter::try_new leaves
\* it, and threads that have not called anything yet.
InitCommon ==
    /\ now = StartMicros
    /\ chunk_buffers = <<>>
    /\ notifiers = <<>>
    /\ closed = FALSE
    /\ callsites = <<>>
    /\ written_callsites = 0
    /\ callsites_file = <<>>
    /\ disk = <<>>
    /\ local_buffer = [p \in Producers |-> 0]
    /\ ppc = [p \in Producers |-> "idle"]
    /\ pts = [p \in Producers |-> AbsFromDuration(0)]
    /\ accepted = <<>>
    /\ fpc = "idle"
    /\ fidx = 0
    /\ fj = 0
    /\ fe = 0
    /\ facc = <<0, 0>>
    /\ wpc = [w \in Waiters |-> "idle"]
    /\ notifier_val = [w \in Waiters |-> None]
    /\ ncalls = 0
    /\ requested = [i \in Iids |-> 0]
    /\ last_none = FALSE
    /\ resolver_ok = TRUE
    /\ seq_written = <<>>
    /\ registered_before = {}
    /\ wcc_start = NoStart
    /\ wait_snapshot = [w \in Waiters |-> {}]
    /\ closed_on = {}

\* ChunkedWriter::try_new
InitWriter == InitCommon /\ seq_buffers = <<>>

Init == InitWriter /\ unit = NoUnit

(***************************************************************************)
(* The sequence buffer on its own: one SeqChunkBuffer (seq_buffers[1]),    *)
(* records with any timestamps and any resolver, as in                     *)
(* tests/chunked_sequence.rs.                                              *)
(***************************************************************************)
SeqRecordData ==
    {TaskData(k, i) : k \in {"TaskNew", "TaskDrop"}, i \in Iids}
    \cup {WakerData("WakerWake", i, c) : i \in Iids, c \in 0..MaxIid}
    \cup {EventData(1, 0)}

SeqRecords == {MkRecord(t, d) : t \in SeqTimestamps, d \in SeqRecordData}

\* What a resolver may return: a Vec<Option<Object>> of any length up to 2.
\* The zip of lines 203-204 ignores what is returned beyond the requested
\* iids, so SeqAppend draws no response longer than the request.
Responses ==
    {<<>>} \cup {<<a>> : a \in {"Some", None}}
    \cup {<<a, b>> : a \in {"Some", None}, b \in {"Some", None}}

CountIn(ids, i) == Cardinality({j \in 1..Len(ids) : ids[j] = i})

\* The resolver returned None for one of the iids it was asked for.
ReturnsNoneFor(ids, response) ==
    \E j \in 1..Len(ids) : j <= Len(response) /\ response[j] = None

\* SeqChunkBuffer::new(ChunkInterval::from_timestamp_and_period(AbsTimestamp::now(), 1_000_000))
InitSeq ==
    /\ InitCommon
    /\ unit = NoUnit
    /\ seq_buffers =
        <<SeqChunkBufferNew(
            from_timestamp_and_period(AbsFromDuration(StartMicros), ChunkPeriodMicros), 1)>>

\* seq_chunk_buffer.append_record(record, get_objects)
SeqAppend ==
    /\ ncalls < MaxAppends
    /\ \E record \in SeqRecords, response \in Responses :
        LET ids == missing_task_ids(seq_buffers[1], record.data) IN
        /\ Len(response) <= Len(ids)
        /\ seq_buffers' = [seq_buffers EXCEPT ![1] = append_record(@, record, response)]
        /\ requested' = [i \in Iids |-> requested[i] + CountIn(ids, i)]
        /\ last_none' = ReturnsNoneFor(ids, response)
        /\ resolver_ok' = (resolver_ok /\ Len(response) = Len(ids))
    /\ ncalls' = ncalls + 1
    /\ UNCHANGED <<now, chunk_buffers, disk, callsite_vars, producer_vars, flusher_vars,
                   ack_vars, seq_written, unit>>

\* seq_chunk_buffer.write(&mut buffer)
SeqWrite ==
    /\ seq_written' = <<SeqChunkWrite(seq_buffers[1])>>
    /\ UNCHANGED <<now, writer_vars, callsite_vars, producer_vars, flusher_vars, ack_vars,
                   ncalls, requested, last_none, resolver_ok, unit>>

NextSeq == SeqAppend \/ SeqWrite

SpecSeq == InitSeq /\ [][NextSeq]_vars

(***************************************************************************)
(* chunked/write.rs: the chunked writer.                                   *)
(***************************************************************************)
\* Variant: the file is named after the minute only.
chunk_path_minute(base_time) ==
    <<base_time \div 3600, (base_time % 3600) \div 60, 0>>

\* ChunkedWriter::chunk_path: <root>/%Y-%m/%d-%H/chunk-%M-%S.rfr of the base
\* second, UTC: the hour since the epoch names the directory, minute and
\* second the file.
chunk_path(base_time) ==
    <<base_time \div 3600, (base_time % 3600) \div 60, base_time % 60>>

\* The variant of push_callsite that stores the value of a re-registration.
push_callsite_replace(list, callsite) ==
    IF \E k \in 1..Len(list) : list[k].callsite_id = callsite.callsite_id
    THEN [k \in 1..Len(list) |->
            IF list[k].callsite_id = callsite.callsite_id THEN callsite ELSE list[k]]
    ELSE Append(list, callsite)

\* ChunkedCallsitesWriter::push_callsite
push_callsite(list, callsite) ==
    IF \E k \in 1..Len(list) : list[k].callsite_id = callsite.callsite_id
    THEN list
    ELSE Append(list, callsite)

\* ChunkedCallsitesWriter::flush: the callsites it writes
flush_to_write(list, written) ==
    IF written >= Len(list) THEN <<>> ELSE SubSeq(list, written + 1, Len(list))

\* The variant of FindChunkBuffer that finds no chunk buffer.
FindChunkBufferNone(table, interval) == 0

\* The index of the chunk buffer for `interval` in the table, 0 if none
\* (create_seq_chunk_buffer, lines 185-187).
FindChunkBuffer(table, interval) ==
    LET hits == {k \in 1..Len(table) : table[k].header.interval = interval}
    IN  IF hits = {} THEN 0 ELSE CHOOSE k \in hits : \A j \in hits : k <= j

\* Variant: a chunk counts as completed as soon as its interval has ended.
is_completed_no_buffer(chunk_buffer, clock) ==
    as_duration_since_epoch(AbsFromDuration(clock))
        > as_duration_since_epoch(abs_end_time(chunk_buffer.header.interval))

\* Variant: a chunk whose interval ended exactly the write time buffer ago
\* counts as completed.
is_completed_inclusive(chunk_buffer, clock) ==
    as_duration_since_epoch(AbsFromDuration(clock))
        >= as_duration_since_epoch(abs_end_time(chunk_buffer.header.interval))
            + WriteTimeBufferMicros

\* write_completed_chunks, lines 223-227: the chunk's interval ended more
\* than the write time buffer ago.
is_completed(chunk_buffer, clock) ==
    saturating_sub(as_duration_since_epoch(AbsFromDuration(clock)),
                   as_duration_since_epoch(abs_end_time(chunk_buffer.header.interval)))
        > WriteTimeBufferMicros

\* Variant: a notifier taken exactly at the chunk's end time is kept.
notify_after_ts_exclusive(notifier, chunk_end_time) ==
    IF AbsCmpGreater(chunk_end_time, notifier.ts) THEN "Notified" ELSE "TooEarly"

\* ChunkWriteNotifier::notify_after_ts
notify_after_ts(notifier, chunk_end_time) ==
    IF AbsCmpGreater(notifier.ts, chunk_end_time) THEN "TooEarly" ELSE "Notified"

RemoveAt(seq, k) == SubSeq(seq, 1, k - 1) \o SubSeq(seq, k + 1, Len(seq))

RegisteredIds == {callsites[k].callsite_id : k \in 1..Len(callsites)}

(***************************************************************************)
(* The clock.                                                              *)
(***************************************************************************)
Tick ==
    /\ ((now - StartMicros) % ChunkPeriodMicros) + TickMicros <= WindowMicros
    /\ now' = now + TickMicros
    /\ UNCHANGED <<writer_vars, callsite_vars, producer_vars, flusher_vars, ack_vars, seq_vars, unit>>

\* thread::sleep: the clock moves on by a chunk period while no thread runs
Sleep ==
    /\ (now - StartMicros) \div ChunkPeriodMicros < MaxSleeps
    /\ now' = now + ChunkPeriodMicros
    /\ UNCHANGED <<writer_vars, callsite_vars, producer_vars, flusher_vars, ack_vars, seq_vars, unit>>

(***************************************************************************)
(* Producer threads.                                                       *)
(***************************************************************************)
\* let timestamp = AbsTimestamp::now();
\* The producer threads are interchangeable: a thread makes its first call
\* after the threads of lower number made theirs.
Stamp(p) ==
    /\ ppc[p] = "idle"
    /\ \A q \in Producers : q < p => (ppc[q] # "idle" \/ local_buffer[q] # 0)
    /\ Len(accepted) + Cardinality({q \in Producers : ppc[q] = "stamped"}) < MaxRecords
    /\ ppc' = [ppc EXCEPT ![p] = "stamped"]
    /\ pts' = [pts EXCEPT ![p] = AbsNow]
    /\ UNCHANGED <<now, writer_vars, callsite_vars, local_buffer, accepted, registered_before,
                   flusher_vars, ack_vars, seq_vars, unit>>

\* writer.with_seq_chunk_buffer(timestamp, |buffer| buffer.append_record(record, ..))
\* for an Event record of callsite c.  The thread's buffer is reused when it
\* is for the timestamp's interval; otherwise create_seq_chunk_buffer takes
\* the chunk buffer table's lock, which the flusher holds during a flush.
with_seq_chunk_buffer(p, c) ==
    LET interval == from_timestamp_and_period(pts[p], ChunkPeriodMicros)
        reuse == local_buffer[p] # 0 /\ seq_buffers[local_buffer[p]].interval = interval
        id == IF reuse THEN local_buffer[p] ELSE Len(seq_buffers) + 1
        at == FindChunkBuffer(chunk_buffers, interval)
        buffer == IF reuse THEN seq_buffers[id] ELSE SeqChunkBufferNew(interval, p)
        rid == Len(accepted) + 1
        record == MkRecord(from_base_and_timestamp(buffer.interval.base_time, pts[p]),
                           EventData(c, rid))
        appended == append_record(buffer, record, <<>>)
    IN  /\ ppc[p] = "stamped"
        /\ reuse \/ fpc = "idle"
        /\ chunk_buffers' =
            IF reuse THEN chunk_buffers
            ELSE IF at # 0
            THEN [chunk_buffers EXCEPT ![at].seq_chunks = Append(@, id)]
            ELSE Append(chunk_buffers,
                        [header |-> ChunkHeaderNew(interval), seq_chunks |-> <<id>>])
        /\ seq_buffers' =
            IF reuse THEN [seq_buffers EXCEPT ![id] = appended]
            ELSE Append(seq_buffers, appended)
        /\ local_buffer' = [local_buffer EXCEPT ![p] = id]
        /\ accepted' = Append(accepted, pts[p])
        /\ registered_before' =
            IF c \in RegisteredIds THEN registered_before \cup {rid} ELSE registered_before
        /\ ppc' = [ppc EXCEPT ![p] = "idle"]
        /\ UNCHANGED <<now, disk, callsite_vars, pts, flusher_vars, ack_vars, seq_vars, unit>>

\* ChunkedWriter::register_callsite
register_callsite(c) ==
    /\ callsites' = push_callsite(callsites, [callsite_id |-> c])
    /\ UNCHANGED <<now, writer_vars, written_callsites, callsites_file, producer_vars,
                   flusher_vars, ack_vars, seq_vars, unit>>

(***************************************************************************)
(* The flusher thread: write_completed_chunks, one lock acquisition or     *)
(* clock read per step.                                                    *)
(***************************************************************************)
\* lines 214-220: lock the table, flush the callsites
WccStart ==
    /\ fpc = "idle"
    /\ callsites_file' = callsites_file \o flush_to_write(callsites, written_callsites)
    /\ written_callsites' = Max(written_callsites, Len(callsites))
    /\ fpc' = "retain"
    /\ fidx' = 1
    /\ wcc_start' =
        [done |-> {k \in 1..Len(chunk_buffers) :
                    now - as_duration_since_epoch(abs_end_time(chunk_buffers[k].header.interval))
                        > WriteTimeBufferMicros},
         table |-> chunk_buffers, bufs |-> seq_buffers, disk |-> disk]
    /\ UNCHANGED <<now, writer_vars, callsites, producer_vars, fj, fe, facc, ack_vars, seq_vars, unit>>

\* lines 222-230 and 242-244: the retain closure reads the clock for the next
\* chunk buffer; a completed chunk gets its file created and ChunkBuffer::write
\* begins, any other chunk buffer is kept.
RetainCheck ==
    /\ fpc = "retain"
    /\ fidx <= Len(chunk_buffers)
    /\ LET cb == chunk_buffers[fidx] IN
        IF is_completed(cb, now)
        THEN /\ disk' = (chunk_path(cb.header.interval.base_time) :>
                            [header |-> <<>>, count |-> 0, seq_chunks |-> <<>>]) @@ disk
             /\ fpc' = "fold_earliest"
             /\ fj' = 1
             /\ facc' = <<cb.header.earliest_timestamp, cb.header.latest_timestamp>>
             /\ UNCHANGED fidx
        ELSE /\ fidx' = fidx + 1
             /\ UNCHANGED <<disk, fpc, fj, facc>>
    /\ UNCHANGED <<now, chunk_buffers, seq_buffers, callsite_vars, producer_vars, fe, wcc_start,
                   ack_vars, seq_vars, unit>>

\* ChunkBuffer::write, line 527: seq_chunk.earliest_timestamp()
FoldEarliest ==
    /\ fpc = "fold_earliest"
    /\ fe' = seq_buffers[chunk_buffers[fidx].seq_chunks[fj]].header.earliest_timestamp
    /\ fpc' = "fold_latest"
    /\ UNCHANGED <<now, writer_vars, callsite_vars, producer_vars, fidx, fj, facc, wcc_start,
                   ack_vars, seq_vars, unit>>

\* ChunkBuffer::write, lines 527-541: seq_chunk.latest_timestamp() and the fold
\* step; after the last sequence chunk the header and the count are written.
FoldLatest ==
    /\ fpc = "fold_latest"
    /\ LET cb == chunk_buffers[fidx]
           latest == seq_buffers[cb.seq_chunks[fj]].header.latest_timestamp
           acc == <<Min(facc[1], fe), Max(facc[2], latest)>>
           path == chunk_path(cb.header.interval.base_time)
       IN  /\ facc' = acc
           /\ IF fj < Len(cb.seq_chunks)
              THEN /\ fj' = fj + 1
                   /\ fpc' = "fold_earliest"
                   /\ UNCHANGED disk
              ELSE /\ fj' = 1
                   /\ fpc' = "write_seq"
                   /\ disk' = [disk EXCEPT ![path] =
                                [header |-> <<[interval |-> cb.header.interval,
                                               earliest_timestamp |-> acc[1],
                                               latest_timestamp |-> acc[2]]>>,
                                 count |-> Len(cb.seq_chunks),
                                 seq_chunks |-> <<>>]]
    /\ UNCHANGED <<now, chunk_buffers, seq_buffers, callsite_vars, producer_vars, fidx, fe,
                   wcc_start, ack_vars, seq_vars, unit>>

\* ChunkBuffer::write, lines 542-544: seq_chunk.write(&mut writer)
WriteSeq ==
    /\ fpc = "write_seq"
    /\ LET cb == chunk_buffers[fidx]
           path == chunk_path(cb.header.interval.base_time)
       IN  /\ disk' = [disk EXCEPT ![path].seq_chunks =
                        Append(@, SeqChunkWrite(seq_buffers[cb.seq_chunks[fj]]))]
           /\ IF fj < Len(cb.seq_chunks)
              THEN fj' = fj + 1 /\ UNCHANGED fpc
              ELSE fpc' = "notify" /\ UNCHANGED fj
    /\ UNCHANGED <<now, chunk_buffers, seq_buffers, callsite_vars, producer_vars, fidx, fe, facc,
                   wcc_start, ack_vars, seq_vars, unit>>

\* lines 232-241: signal the notifiers the chunk's end time covers, keep the
\* others, and drop the chunk buffer from the table.
NotifyWritten ==
    /\ fpc = "notify"
    /\ LET end_time == abs_end_time(chunk_buffers[fidx].header.interval)
           hit == {k \in 1..Len(notifiers) :
                    notify_after_ts(notifiers[k], end_time) = "Notified"}
       IN  /\ notifiers' =
                SelectSeq(notifiers, LAMBDA n : notify_after_ts(n, end_time) = "TooEarly")
           /\ notifier_val' =
                [w \in Waiters |->
                    IF \E k \in hit : notifiers[k].w = w THEN "Written" ELSE notifier_val[w]]
    /\ chunk_buffers' = RemoveAt(chunk_buffers, fidx)
    /\ fpc' = "retain"
    /\ UNCHANGED <<now, seq_buffers, disk, callsite_vars, producer_vars, fidx, fj, fe, facc,
                   wcc_start, closed, wpc, wait_snapshot, closed_on, seq_vars, unit>>

\* lines 245-255: the table's lock is released and the call returns
WccEnd ==
    /\ fpc = "retain"
    /\ fidx > Len(chunk_buffers)
    /\ fpc' = "idle"
    /\ fidx' = 0
    /\ fj' = 0
    /\ fe' = 0
    /\ facc' = <<0, 0>>
    /\ wcc_start' = NoStart
    /\ UNCHANGED <<now, writer_vars, callsite_vars, producer_vars, ack_vars, seq_vars, unit>>

Flusher == WccStart \/ RetainCheck \/ FoldEarliest \/ FoldLatest \/ WriteSeq \/ NotifyWritten \/ WccEnd

(***************************************************************************)
(* Threads waiting for a write, and close.                                 *)
(***************************************************************************)
SameInterval(a, b) ==
    from_timestamp_and_period(a, ChunkPeriodMicros)
        = from_timestamp_and_period(b, ChunkPeriodMicros)

\* ChunkedWriter::wait_for_write_timeout, lines 284-289: the notifier is
\* pushed, then the caller blocks on it.  The waiting threads are
\* interchangeable: they make their calls in the order of their numbers.
WaitStart(w) ==
    /\ wpc[w] = "idle"
    /\ \A v \in Waiters : v < w => wpc[v] # "idle"
    /\ notifiers' = Append(notifiers, [ts |-> AbsNow, w |-> w])
    /\ wpc' = [wpc EXCEPT ![w] = "waiting"]
    /\ wait_snapshot' = [wait_snapshot EXCEPT ![w] =
            {rid \in 1..Len(accepted) : SameInterval(accepted[rid], AbsNow)}]
    /\ UNCHANGED <<now, writer_vars, callsite_vars, producer_vars, flusher_vars, closed,
                   notifier_val, closed_on, seq_vars, unit>>

\* ChunkWriteNotifier::wait_for_write_timeout, lines 386-388: a value was set
WaitReturn(w) ==
    /\ wpc[w] = "waiting"
    /\ notifier_val[w] # None
    /\ wpc' = [wpc EXCEPT ![w] = notifier_val[w]]
    /\ wait_snapshot' = [wait_snapshot EXCEPT ![w] = {}]
    /\ UNCHANGED <<now, writer_vars, callsite_vars, producer_vars, flusher_vars, notifiers,
                   closed, notifier_val, closed_on, seq_vars, unit>>

\* lines 379-381 and 389-391: the deadline passed and no value is set
WaitTimeout(w) ==
    /\ wpc[w] = "waiting"
    /\ notifier_val[w] = None
    /\ wpc' = [wpc EXCEPT ![w] = "Timeout"]
    /\ wait_snapshot' = [wait_snapshot EXCEPT ![w] = {}]
    /\ UNCHANGED <<now, writer_vars, callsite_vars, producer_vars, flusher_vars, notifiers,
                   closed, notifier_val, closed_on, seq_vars, unit>>

\* Variant: close signals and removes only the notifier pushed last.
close_pop_one ==
    /\ closed' = TRUE
    /\ notifier_val' =
        [w \in Waiters |->
            IF notifiers # <<>> /\ notifiers[Len(notifiers)].w = w THEN "Closed"
            ELSE notifier_val[w]]
    /\ notifiers' = SubSeq(notifiers, 1, Len(notifiers) - 1)
    /\ closed_on' = closed_on \cup {w \in Waiters : wpc[w] = "waiting" /\ notifier_val[w] = None}
    /\ UNCHANGED <<now, writer_vars, callsite_vars, producer_vars, flusher_vars, wpc,
                   wait_snapshot, seq_vars, unit>>

\* ChunkedWriter::close
close ==
    /\ closed' = TRUE
    /\ notifier_val' =
        [w \in Waiters |->
            IF \E k \in 1..Len(notifiers) : notifiers[k].w = w THEN "Closed"
            ELSE notifier_val[w]]
    /\ notifiers' = <<>>
    /\ closed_on' = closed_on \cup {w \in Waiters : wpc[w] = "waiting" /\ notifier_val[w] = None}
    /\ UNCHANGED <<now, writer_vars, callsite_vars, producer_vars, flusher_vars, wpc,
                   wait_snapshot, seq_vars, unit>>

(***************************************************************************)
(* Specifications.                                                         *)
(***************************************************************************)
Producer ==
    \E p \in Producers : Stamp(p) \/ \E c \in CallsiteIds : with_seq_chunk_buffer(p, c)

Waiter == \E w \in Waiters : WaitStart(w) \/ WaitReturn(w) \/ WaitTimeout(w)

\* Producers, callsite registration and the flusher.
Next ==
    \/ Tick
    \/ Sleep
    \/ Producer
    \/ \E c \in CallsiteIds : register_callsite(c)
    \/ Flusher

Spec == Init /\ [][Next]_vars

\* One producer, the flusher, waiters and close.
NextAck ==
    \/ Tick
    \/ Stamp(1)
    \/ \E c \in CallsiteIds : with_seq_chunk_buffer(1, c)
    \/ Flusher
    \/ Waiter
    \/ close

SpecAck == Init /\ [][NextAck]_vars

\* Producers whose timestamp is at most the write time buffer older than the
\* time of their call.
TimelyAppend(p, c) ==
    /\ as_duration_since_epoch(AbsNow) - as_duration_since_epoch(pts[p])
            <= WriteTimeBufferMicros
    /\ with_seq_chunk_buffer(p, c)

NextTimely ==
    \/ Tick
    \/ Sleep
    \/ \E p \in Producers : Stamp(p) \/ \E c \in CallsiteIds : TimelyAppend(p, c)
    \/ Flusher

\* The clock keeps advancing and the flusher thread keeps running its loop
\* (tests/chunked_writer.rs, spawn_writer_loop).
SpecTimely ==
    Init /\ [][NextTimely]_vars /\ WF_vars(Tick) /\ WF_vars(Sleep) /\ WF_vars(Flusher)

(***************************************************************************)
(* Claims about the chunked writer.                                        *)
(***************************************************************************)
\* The record rid is in a sequence chunk of a chunk file.
OnDisk(rid) ==
    \E path \in DOMAIN disk :
        \E k \in 1..Len(disk[path].seq_chunks) :
            \E r \in 1..Len(disk[path].seq_chunks[k].records) :
                disk[path].seq_chunks[k].records[r].data.rid = rid

\* The end of an interval, microseconds since the epoch.
EndMicros(interval) == as_duration_since_epoch(abs_end_time(interval))

\* The last time the clock reaches.
LastTime ==
    StartMicros + MaxSleeps * ChunkPeriodMicros + (WindowMicros \div TickMicros) * TickMicros

\* C1: when wait_for_write_timeout, called at time ts, returns Written, every
\* record accepted before the call whose timestamp lies in the chunk interval
\* [start, end) that contains ts is in a chunk file.
C1_WrittenMeansOnDisk ==
    [][\A w \in Waiters :
        (wpc[w] = "waiting" /\ wpc'[w] = "Written") =>
            \A rid \in wait_snapshot[w] : OnDisk(rid)]_vars

\* The record's chunk ends early enough for the clock to pass its end by more
\* than the write time buffer.
CompletesInTime(rid) ==
    /\ rid <= Len(accepted)
    /\ EndMicros(from_timestamp_and_period(accepted[rid], ChunkPeriodMicros))
            + WriteTimeBufferMicros < LastTime

C3_FlushWritesExactlyCompleted ==
    [][(fpc = "retain" /\ fpc' = "idle") =>
        \A k \in 1..Len(wcc_start.table) :
            LET cb == wcc_start.table[k]
                path == chunk_path(cb.header.interval.base_time)
            IN  /\ k \in wcc_start.done =>
                    /\ \A j \in 1..Len(chunk_buffers) :
                            chunk_buffers[j].header.interval # cb.header.interval
                    /\ path \in DOMAIN disk
                    /\ disk[path].header # <<>>
                    /\ disk[path].header[1].interval = cb.header.interval
                    /\ disk[path].count = Len(cb.seq_chunks)
                    /\ Len(disk[path].seq_chunks) = Len(cb.seq_chunks)
                    /\ \A j \in 1..Len(cb.seq_chunks) :
                        LET at_start == wcc_start.bufs[cb.seq_chunks[j]] IN
                        /\ disk[path].seq_chunks[j].header.seq_id = at_start.header.seq_id
                        /\ Len(disk[path].seq_chunks[j].records) >= Len(at_start.records)
                        /\ \A r \in 1..Len(at_start.records) :
                            disk[path].seq_chunks[j].records[r] = at_start.records[r]
                /\ (now - EndMicros(cb.header.interval) <= WriteTimeBufferMicros) =>
                    /\ \E j \in 1..Len(chunk_buffers) : chunk_buffers[j] = cb
                    /\ (path \in DOMAIN disk) = (path \in DOMAIN wcc_start.disk)
                    /\ path \in DOMAIN disk => disk[path] = wcc_start.disk[path]]_vars

\* A call is about to return that began with a completed chunk buffer and
\* with one whose interval has not ended 150 ms ago.
C3_Witness ==
    /\ fpc = "retain"
    /\ fidx > Len(chunk_buffers)
    /\ wcc_start.done # {}
    /\ \E k \in 1..Len(wcc_start.table) :
        now - EndMicros(wcc_start.table[k].header.interval) <= WriteTimeBufferMicros

C6_CallsitesWrittenBeforeChunk ==
    \A path \in DOMAIN disk :
        \A k \in 1..Len(disk[path].seq_chunks) :
            \A r \in 1..Len(disk[path].seq_chunks[k].records) :
                LET data == disk[path].seq_chunks[k].records[r].data IN
                data.rid \in registered_before =>
                    \E j \in 1..Len(callsites_file) :
                        callsites_file[j].callsite_id = data.callsite_id

(***************************************************************************)
(* Claims about the sequence buffer.                                       *)
(***************************************************************************)

\* C7: across the append_record calls on one sequence buffer, each iid is
\* passed to the object resolver at most once, whether the resolver answered
\* with an object or with None for it (resolvers that return one option per
\* requested iid).
C7_EachIidRequestedAtMostOnce == resolver_ok => \A i \in Iids : requested[i] <= 1

\* C8: when the resolver returns None for an iid the record references,
\* append_record drops the record: record_count and the serialized records
\* are what they were before the call.
C8_NoneDropsRecord ==
    [][(ncalls' # ncalls /\ last_none') =>
        /\ seq_buffers'[1].record_count = seq_buffers[1].record_count
        /\ seq_buffers'[1].records = seq_buffers[1].records]_vars

\* A record was dropped for an unresolved iid from a buffer that already
\* holds a record and an object.
C8_Witness ==
    /\ ncalls >= 2
    /\ last_none
    /\ seq_buffers[1].record_count = 1
    /\ seq_buffers[1].objects # {}
    /\ seq_buffers[1].missing_objects # {}

\* C9: in every sequence chunk written, earliest_timestamp is at most the
\* smallest and latest_timestamp at least the largest record timestamp.
C9_HeaderBoundsRecords ==
    \A k \in 1..Len(seq_written) :
        \A r \in 1..Len(seq_written[k].records) :
            /\ seq_written[k].header.earliest_timestamp <= seq_written[k].records[r].timestamp
            /\ seq_written[k].header.latest_timestamp >= seq_written[k].records[r].timestamp

(***************************************************************************)
(* Claims about chunk files.                                               *)
(***************************************************************************)
\* C10: in every chunk file the chunk header's earliest_timestamp is at most
\* and its latest_timestamp at least that of each sequence chunk header in
\* the file.
C10_ChunkHeaderCoversSeqChunks ==
    \A path \in DOMAIN disk :
        disk[path].header # <<>> =>
            \A k \in 1..Len(disk[path].seq_chunks) :
                /\ disk[path].header[1].earliest_timestamp
                        <= disk[path].seq_chunks[k].header.earliest_timestamp
                /\ disk[path].header[1].latest_timestamp
                        >= disk[path].seq_chunks[k].header.latest_timestamp

(***************************************************************************)
(* Claims about the objects of a sequence chunk.                           *)
(***************************************************************************)
\* The iids a task or waker record refers to.
ReferencedIids(data) ==
    IF data.kind \in TaskKinds THEN {data.iid}
    ELSE IF data.kind \in WakerKinds
    THEN {data.task_iid} \cup (IF data.context # 0 THEN {data.context} ELSE {})
    ELSE {}

\* C11: in every sequence chunk written, with resolvers that return one
\* option per requested iid, every iid a task or waker record refers to (its
\* iid, or the waker's task_iid and context) has an entry in the objects of
\* that sequence chunk.
C11_ReferencedIidsHaveObjects ==
    resolver_ok =>
        \A k \in 1..Len(seq_written) :
            \A r \in 1..Len(seq_written[k].records) :
                ReferencedIids(seq_written[k].records[r].data) \subseteq seq_written[k].objects

\* A written sequence chunk holds a waker record with a context other than
\* its task, after an append that was dropped for an unresolved iid.
C11_Witness ==
    /\ resolver_ok
    /\ seq_buffers[1].missing_objects # {}
    /\ \E k \in 1..Len(seq_written) :
        \E r \in 1..Len(seq_written[k].records) :
            LET data == seq_written[k].records[r].data IN
            /\ data.kind \in WakerKinds
            /\ data.context # 0
            /\ data.context # data.task_iid

(***************************************************************************)
(* Chunk paths for any chunk period: the interval of a timestamp           *)
(* (ChunkInterval::from_timestamp_and_period) and the path its chunk is    *)
(* written to (ChunkedWriter::chunk_path).                                 *)
(***************************************************************************)
\* Largest second of a timestamp.
MaxPathSecs == 3
\* Chunk periods: divisors and multiples of one second.
Periods == {500000, 1000000, 2000000}
PathTimestamps ==
    {[secs |-> sec, subsec_micros |-> sub] : sec \in 0..MaxPathSecs, sub \in {0, 250000, 500000}}

\* A writer with chunk period `chunk_period_micros`; files: the intervals
\* of the chunks written to each path.
InitPath ==
    /\ InitWriter
    /\ \E period \in Periods :
        unit = [component |-> "chunk_path", chunk_period_micros |-> period, files |-> <<>>]

\* write_completed_chunks, lines 228-230: the chunk of the interval of
\* `timestamp` is written to writer_for_chunk(chunk).
PathWrite ==
    /\ \E timestamp \in PathTimestamps :
        LET interval == from_timestamp_and_period(timestamp, unit.chunk_period_micros)
            path == chunk_path(interval.base_time)
            before == IF path \in DOMAIN unit.files THEN unit.files[path] ELSE {}
        IN  unit' = [unit EXCEPT !.files = (path :> (before \cup {interval})) @@ unit.files]
    /\ UNCHANGED program_vars

NextPath == PathWrite

SpecPath == InitPath /\ [][NextPath]_vars

InitOpenFail ==
    /\ InitWriter
    /\ unit = [component |-> "writer_for_chunk", poisoned |-> FALSE, lock_panics |-> {}]

\* write.rs 228 and 298-300: File::create fails for a completed chunk.  The
\* panic unwinds out of Vec::retain, which keeps the chunk buffer, and out of
\* write_completed_chunks, dropping the guard of chunk_buffers: the mutex is
\* poisoned and the flusher thread is gone.
OpenFails ==
    /\ fpc = "retain"
    /\ fidx <= Len(chunk_buffers)
    /\ is_completed(chunk_buffers[fidx], now)
    /\ fpc' = "panicked"
    /\ unit' = [unit EXCEPT !.poisoned = TRUE]
    /\ UNCHANGED <<now, writer_vars, callsite_vars, producer_vars, fidx, fj, fe, facc,
                   wcc_start, ack_vars, seq_vars>>

\* write.rs 184: a producer that needs a new sequence buffer locks the
\* table with .lock().expect("poisoned") and panics.
CreatePanics(p) ==
    LET interval == from_timestamp_and_period(pts[p], ChunkPeriodMicros)
        reuse == local_buffer[p] # 0 /\ seq_buffers[local_buffer[p]].interval = interval
    IN  /\ ppc[p] = "stamped"
        /\ ~reuse
        /\ unit.poisoned
        /\ ppc' = [ppc EXCEPT ![p] = "panicked"]
        /\ unit' = [unit EXCEPT !.lock_panics = @ \cup {p}]
        /\ UNCHANGED <<now, writer_vars, callsite_vars, local_buffer, pts, accepted,
                       registered_before, flusher_vars, ack_vars, seq_vars>>

\* write.rs 214: a later call of write_completed_chunks, from any thread,
\* panics at the lock (0 in lock_panics; producers are there by number).
TickPanics ==
    /\ unit.poisoned
    /\ 0 \notin unit.lock_panics
    /\ unit' = [unit EXCEPT !.lock_panics = @ \cup {0}]
    /\ UNCHANGED program_vars

NextOpenFail ==
    \/ Tick
    \/ Sleep
    \/ Stamp(1)
    \/ \E c \in CallsiteIds : with_seq_chunk_buffer(1, c)
    \/ Flusher
    \/ OpenFails
    \/ CreatePanics(1)
    \/ TickPanics

SpecOpenFail == InitOpenFail /\ [][NextOpenFail]_vars

\* C13: when opening the file of a chunk fails during a flush, the chunk
\* buffer stays in the table, and producers and later flusher ticks keep
\* working: no later call panics.
C13_OpenFailureIsSurvived ==
    unit.poisoned =>
        /\ chunk_buffers # <<>>
        /\ unit.lock_panics = {}

(***************************************************************************)
(* rfr-convert/src/perfetto.rs: flow ids and the per-task state machine    *)
(* of write_perfetto.                                                      *)
(***************************************************************************)
\* perfetto.rs:90  const MASK_WAKE: u64 = 0x3ff << Self::SHIFT_WAKE;
MaskWakeBits == 1023

\* A FlowId is a u64 of three bit fields: bit 63 (spawn), bits 53..62 (wake)
\* and bits 0..52, which hold the DynamicId (write_perfetto rejects a
\* recording with a DynamicId of 2^53 or more, lines 245-253).
\* FlowId::spawn
FlowIdSpawn(did) == [dynamic_id |-> did, wake |-> 0, spawn |-> TRUE]

\* FlowId::wake: did | ((wid << SHIFT_WAKE) & MASK_WAKE)
FlowIdWake(did, wid) ==
    [dynamic_id |-> did, wake |-> wid % (MaskWakeBits + 1), spawn |-> FALSE]

\* enum TaskState
TaskState(kind) == [kind |-> kind]
TaskStateScheduled(kind, wake_flow_id) == [kind |-> kind, wake_flow_id |-> wake_flow_id]

\* Variant: a wake while the task is being polled makes it IdleScheduled.
task_state_step_wake_idle(state, did, data) ==
    IF data.kind = "TaskPollStart"
    THEN [state |-> TaskState("Polling"),
          flow_id |-> IF state.kind = "IdleScheduled" THEN <<state.wake_flow_id>> ELSE <<>>]
    ELSE IF data.kind = "TaskPollEnd"
    THEN [state |-> IF state.kind = "PollingScheduled"
                    THEN TaskStateScheduled("IdleScheduled", state.wake_flow_id)
                    ELSE TaskState("Idle"),
          flow_id |-> <<>>]
    ELSE IF data.kind = "TaskNew" THEN [state |-> TaskState("Idle"), flow_id |-> <<>>]
    ELSE IF data.kind = "TaskDrop" THEN [state |-> TaskState("Dropped"), flow_id |-> <<>>]
    ELSE IF data.kind = "WakerWoken"
    THEN [state |-> TaskStateScheduled("IdleScheduled", FlowIdWake(did, data.wid)),
          flow_id |-> <<>>]
    ELSE [state |-> state, flow_id |-> <<>>]

\* write_perfetto, lines 394-577: what one record of a task does to the
\* task's state, and the terminating flow id a TaskPollStart carries
\* (<<>> is None).
task_state_step(state, did, data) ==
    IF data.kind = "TaskPollStart"
    THEN [state |-> TaskState("Polling"),
          flow_id |-> IF state.kind = "IdleScheduled" THEN <<state.wake_flow_id>> ELSE <<>>]
    ELSE IF data.kind = "TaskPollEnd"
    THEN [state |-> IF state.kind = "Polling" THEN TaskState("Idle")
                    ELSE IF state.kind = "PollingScheduled"
                    THEN TaskStateScheduled("IdleScheduled", state.wake_flow_id)
                    ELSE TaskState("Idle"),
          flow_id |-> <<>>]
    ELSE IF data.kind = "TaskNew" THEN [state |-> TaskState("Idle"), flow_id |-> <<>>]
    ELSE IF data.kind = "TaskDrop" THEN [state |-> TaskState("Dropped"), flow_id |-> <<>>]
    ELSE IF data.kind = "WakerWoken"
    THEN [state |-> IF state.kind = "Idle"
                    THEN TaskStateScheduled("IdleScheduled", FlowIdWake(did, data.wid))
                    ELSE IF state.kind = "Polling"
                    THEN TaskStateScheduled("PollingScheduled", FlowIdWake(did, data.wid))
                    ELSE TaskStateScheduled("IdleScheduled", FlowIdWake(did, data.wid)),
          flow_id |-> <<>>]
    ELSE [state |-> state, flow_id |-> <<>>]

\* Records of one task processed, and the largest wake id.
MaxTaskRecords == 4
MaxWid == 2
TaskDids == {1, 2}

\* collect.rs Data: the records of a task's list
TaskRecordData ==
    {[kind |-> k] : k \in {"TaskNew", "TaskPollStart", "TaskPollEnd", "TaskDrop",
                           "WakerWake", "WakerClone", "WakerDrop", "Spawn"}}
    \cup {[kind |-> "WakerWoken", wid |-> wid] : wid \in 1..MaxWid}

\* lines 391-393: let mut state = TaskState::Unknown; task_did = task_records.did
InitPerfetto ==
    /\ InitWriter
    /\ \E did \in TaskDids :
        unit = [component |-> "write_perfetto", did |-> did, state |-> TaskState("Unknown"),
                n |-> 0, prev |-> TaskState("Unknown"), data |-> [kind |-> "none"],
                flow_id |-> <<>>]

\* one turn of `for record in &task_records.records`
PerfettoRecord ==
    /\ unit.n < MaxTaskRecords
    /\ \E data \in TaskRecordData :
        LET step == task_state_step(unit.state, unit.did, data) IN
        unit' = [unit EXCEPT !.state = step.state, !.flow_id = step.flow_id,
                             !.prev = unit.state, !.data = data, !.n = @ + 1]
    /\ UNCHANGED program_vars

NextPerfetto == PerfettoRecord

SpecPerfetto == InitPerfetto /\ [][NextPerfetto]_vars

\* The wake flow id of wake `wid` of the task.
WakeLink(wid) == [dynamic_id |-> unit.did, wake |-> wid, spawn |-> FALSE]

\* C14: the state of a task after each record is the one the transition
\* relation gives for the state before it: TaskNew leads to Idle; WakerWoken
\* to IdleScheduled{wid} from Idle, PollingScheduled{wid} from Polling and
\* IdleScheduled{wid} from any other state; TaskPollStart to Polling, with
\* the flow link w exactly when the state before was IdleScheduled{w};
\* TaskPollEnd to Idle from Polling and to IdleScheduled{w} from
\* PollingScheduled{w}; TaskDrop to Dropped.
C14_TaskStateTransitions ==
    unit.n > 0 =>
        /\ unit.data.kind = "TaskNew" => unit.state = [kind |-> "Idle"]
        /\ unit.data.kind = "TaskDrop" => unit.state = [kind |-> "Dropped"]
        /\ unit.data.kind = "WakerWoken" =>
            unit.state =
                [kind |-> IF unit.prev.kind = "Polling" THEN "PollingScheduled"
                          ELSE "IdleScheduled",
                 wake_flow_id |-> WakeLink(unit.data.wid)]
        /\ unit.data.kind = "TaskPollStart" =>
            /\ unit.state = [kind |-> "Polling"]
            /\ unit.flow_id =
                    IF unit.prev.kind = "IdleScheduled" THEN <<unit.prev.wake_flow_id>>
                    ELSE <<>>
        /\ unit.data.kind = "TaskPollEnd" =>
            /\ unit.prev.kind = "Polling" => unit.state = [kind |-> "Idle"]
            /\ unit.prev.kind = "PollingScheduled" =>
                    unit.state = [kind |-> "IdleScheduled",
                                  wake_flow_id |-> unit.prev.wake_flow_id]
        /\ unit.data.kind # "TaskPollStart" => unit.flow_id = <<>>

\* The poll start that follows the second wake of a task carried that
\* wake's flow link.
C14_Witness ==
    /\ unit.n >= 2
    /\ unit.data.kind = "TaskPollStart"
    /\ unit.prev.kind = "IdleScheduled"
    /\ unit.flow_id = <<WakeLink(2)>>

-----------------------------------------------------------------------------
\* rfr-viz/src/collect.rs: the timeline sections of one task row.

MaxSectionRecords == 5

TaskRecordKind == {"New", "PollStart", "PollEnd", "Drop", "Wake"}

SectionGaps == {1, 2}

SaturatingSub(a, b) == IF a > b THEN a - b ELSE 0

\* TaskTimeHandle::task_time over WinTimeHandle::window_time: the task's clock
\* starts at its TaskNew record, or at the window start when the task's first
\* record is not a TaskNew.
task_time(kinds, win_ts, i) ==
    SaturatingSub(win_ts[i], IF kinds[1] = "New" THEN win_ts[1] ELSE 0)

\* The section before the first record of the row.
extra_section(task_records) ==
    LET first == task_records[1]
        state ==
            CASE first.kind = "New" -> None
              [] first.kind = "PollStart" -> "IdleScheduled"
              [] first.kind = "PollEnd" -> "Active"
              [] first.kind = "Drop" -> "Idle"
              [] first.kind = "Wake" ->
                    IF Len(task_records) >= 2 /\ task_records[2].kind = "PollEnd"
                    THEN "Active"
                    ELSE "Idle"
    IN  IF first.ts # 0 /\ state # None
        THEN <<[duration |-> first.ts, state |-> state]>>
        ELSE <<>>

\* The match on (current.kind, prev.kind) in the loop of collect_into_rows.
Section(prev, current) ==
    LET Invalid == [op |-> "Invalid", state |-> None, n |-> 0]
        New(state) == [op |-> "New", state |-> state, n |-> 0]
        ReplaceWith(n, state) == [op |-> "ReplaceWith", state |-> state, n |-> n]
    IN  CASE current = "New" -> Invalid
          [] current = "PollStart" ->
                (CASE prev \in {"New", "PollEnd"} -> New("Idle")
                   [] prev = "Wake" -> New("IdleScheduled")
                   [] OTHER -> Invalid)
          [] current = "PollEnd" ->
                (CASE prev = "PollStart" -> New("Active")
                   [] prev = "Wake" -> New("ActiveScheduled")
                   [] OTHER -> Invalid)
          [] current = "Drop" ->
                (CASE prev \in {"New", "PollEnd"} -> ReplaceWith(2, "Idle")
                   [] prev = "Wake" -> ReplaceWith(2, "IdleScheduled")
                   [] OTHER -> Invalid)
          [] current = "Wake" ->
                (CASE prev \in {"New", "PollEnd"} -> New("Idle")
                   [] prev = "PollStart" -> New("Active")
                   [] prev = "Wake" -> [op |-> "ExtendLast", state |-> None, n |-> 0]
                   [] OTHER -> Invalid)

extend_task_sections(task_sections, section, prev_ts, current_ts) ==
    LET duration == SaturatingSub(current_ts, prev_ts)
        len == Len(task_sections)
    IN  CASE section.op = "New" ->
                Append(task_sections, [duration |-> duration, state |-> section.state])
          [] section.op = "ReplaceWith" ->
                Append(SubSeq(task_sections, 1, SaturatingSub(len, section.n)),
                       [duration |-> duration, state |-> section.state])
          [] section.op = "ExtendLast" ->
                IF len > 0
                THEN [task_sections EXCEPT ![len].duration = @ + duration]
                ELSE task_sections
          [] section.op = "Invalid" -> task_sections

\* last_state returns the row's last state and may pop the last section.
last_state(task_records, task_sections) ==
    LET keep(state) == [state |-> state, sections |-> task_sections]
        len == Len(task_sections)
        last_kind == task_records[Len(task_records)].kind
    IN  IF Len(task_records) <= 1 \/ len = 0
        THEN keep(None)
        ELSE CASE last_kind = "New" -> keep(None)
               [] last_kind = "PollStart" -> keep("Active")
               [] last_kind = "PollEnd" -> keep("Idle")
               [] last_kind = "Drop" -> keep(None)
               [] last_kind = "Wake" ->
                    (CASE task_sections[len].state = "Active" -> keep("ActiveScheduled")
                       [] task_sections[len].state = "Idle" -> keep("IdleScheduled")
                       [] OTHER -> [state |-> task_sections[len].state,
                                    sections |-> SubSeq(task_sections, 1, len - 1)])

\* One row: the task records of one task, before its sections are derived.
InitSections ==
    /\ InitWriter
    /\ \E n \in 1..MaxSectionRecords :
       \E kinds \in [1..n -> TaskRecordKind] :
       \E first \in {0, 1} :
       \E gap \in SectionGaps :
          LET win_ts == [i \in 1..n |-> first + gap * (i - 1)]
          IN  unit = [component |-> "collect_into_rows",
                      pc |-> "first",
                      task_records |-> [i \in 1..n |->
                          [ts |-> task_time(kinds, win_ts, i), kind |-> kinds[i]]],
                      curr_idx |-> 1,
                      task_sections |-> <<>>,
                      last_state |-> None]

SectionsFirst ==
    /\ unit.pc = "first"
    /\ unit' = [unit EXCEPT !.pc = "loop",
                             !.task_sections = extra_section(unit.task_records)]
    /\ UNCHANGED program_vars

\* One iteration of `for curr_idx in 1..task_records.len()` (0-based there,
\* so the model's curr_idx is the index of prev).
SectionsLoop ==
    /\ unit.pc = "loop"
    /\ unit.curr_idx < Len(unit.task_records)
    /\ LET prev == unit.task_records[unit.curr_idx]
           current == unit.task_records[unit.curr_idx + 1]
       IN  unit' = [unit EXCEPT
                !.curr_idx = @ + 1,
                !.task_sections = extend_task_sections(
                    @, Section(prev.kind, current.kind), prev.ts, current.ts)]
    /\ UNCHANGED program_vars

SectionsLast ==
    /\ unit.pc = "loop"
    /\ unit.curr_idx = Len(unit.task_records)
    /\ LET last == last_state(unit.task_records, unit.task_sections)
       IN  unit' = [unit EXCEPT !.pc = "done",
                                !.task_sections = last.sections,
                                !.last_state = last.state]
    /\ UNCHANGED program_vars

NextSections ==
    \/ SectionsFirst
    \/ SectionsLoop
    \/ SectionsLast

SpecSections == InitSections /\ [][NextSections]_vars

SectionKinds == [i \in 1..Len(unit.task_records) |-> unit.task_records[i].kind]

SectionStates == [i \in 1..Len(unit.task_sections) |-> unit.task_sections[i].state]

\* C15: a task whose records are TaskNew, WakerWoken, TaskPollStart,
\* TaskPollEnd, TaskDrop in strictly increasing timestamp order gets exactly
\* the sections Idle, Scheduled, Active, Idle.
C15_FullLifecycleSections ==
    (/\ unit.component = "collect_into_rows"
     /\ unit.pc = "done"
     /\ SectionKinds = <<"New", "Wake", "PollStart", "PollEnd", "Drop">>)
        => SectionStates = <<"Idle", "IdleScheduled", "Active", "Idle">>

-----------------------------------------------------------------------------
\* rfr-convert/src/collect.rs: collect_tasks groups the records of a recording
\* by task.

MaxCollectRecords == 2

CollectIids == {1, 2}

\* Option<InstrumentationId>::None
NoIid == 0

CollectTimestamps == {0, 1}

TaskRecordKinds == {"TaskNew", "TaskPollStart", "TaskPollEnd", "TaskDrop"}

WakerRecordKinds == {"WakerWake", "WakerWakeByRef", "WakerClone", "WakerDrop"}

\* chunked::RecordData as collect_tasks reads it: iid is the task of a task
\* record or waker.task_iid, context is waker.context; "Other" stands for
\* every kind that the match skips. The context of a cloned or dropped waker
\* is only copied into the conversion record, so one value stands for all.
RecordData ==
    [kind : TaskRecordKinds, iid : CollectIids, context : {NoIid}]
        \cup [kind : {"WakerWake", "WakerWakeByRef"}, iid : CollectIids,
              context : {NoIid} \cup CollectIids]
        \cup [kind : {"WakerClone", "WakerDrop"}, iid : CollectIids, context : {NoIid}]
        \cup [kind : {"Other"}, iid : {NoIid}, context : {NoIid}]

\* Data of a conversion record; `other` holds woken_by or by_iid.
Data(kind, iid, other, wid) == [kind |-> kind, iid |-> iid, other |-> other, wid |-> wid]

TaskRecordsNew(task, did) ==
    [task |-> task, did |-> did, greatest_wid |-> 0, start |-> 0, end_set |-> FALSE,
     end |-> 0, records |-> <<>>]

add_record(t, record) ==
    [t EXCEPT
        !.start = IF t.records = <<>> /\ record.data.kind = "TaskNew"
                  THEN record.timestamp ELSE @,
        !.end_set = @ \/ record.data.kind = "TaskDrop",
        !.end = IF record.data.kind = "TaskDrop" THEN record.timestamp ELSE @,
        !.records = Append(@, record)]

\* tasks.entry(iid).and_modify(|t| t.add_record(record))
AddToTask(tasks, iid, record) ==
    IF iid \in DOMAIN tasks
    THEN [tasks EXCEPT ![iid] = add_record(@, record)]
    ELSE tasks

\* The variant of wake_wid that reads the counter before the increment.
wake_wid_before_inc(tasks, task_iid) ==
    IF task_iid \in DOMAIN tasks THEN tasks[task_iid].greatest_wid ELSE 0

\* tasks.get_mut(&waker.task_iid).map(|t| t.greatest_wid.inc())
\*     .unwrap_or(WakeId::ZERO)
wake_wid(tasks, task_iid) ==
    IF task_iid \in DOMAIN tasks THEN tasks[task_iid].greatest_wid + 1 ELSE 0

\* The (AddTo, Data) pairs of one record; add_to NoIid is AddTo::Sequence.
records_to_add(tasks, data) ==
    CASE data.kind \in TaskRecordKinds ->
            <<[add_to |-> data.iid, data |-> Data(data.kind, data.iid, NoIid, 0)]>>
      [] data.kind \in {"WakerWake", "WakerWakeByRef"} ->
            LET wid == wake_wid(tasks, data.iid)
                action == IF data.kind = "WakerWake" THEN "Consume" ELSE "ByRef"
            IN  <<[add_to |-> data.iid,
                   data |-> [Data("WakerWoken", data.iid, data.context, wid)
                                EXCEPT !.kind = "WakerWoken" \o action]],
                  [add_to |-> data.context,
                   data |-> [Data("WakerWake", data.iid, NoIid, wid)
                                EXCEPT !.kind = "WakerWake" \o action]]>>
      [] data.kind \in {"WakerClone", "WakerDrop"} ->
            <<[add_to |-> data.iid, data |-> Data(data.kind, data.iid, data.context, 0)]>>
      [] OTHER -> <<>>

\* The variant of spawn_records that addresses the Spawn to the spawned task.
spawn_records_to_spawned(tasks, to_add, timestamp) ==
    IF /\ to_add # <<>>
       /\ to_add[1].data.kind = "TaskNew"
       /\ to_add[1].data.iid \in DOMAIN tasks
       /\ tasks[to_add[1].data.iid].task.context # NoIid
    THEN LET task == tasks[to_add[1].data.iid].task
         IN  <<[add_to |-> task.iid,
                record |-> [timestamp |-> timestamp,
                            data |-> Data("Spawn", task.iid, task.context, 0)]]>>
    ELSE <<>>

\* "Handle TaskNew specially for spawn tracking": the Spawn record of a
\* TaskNew whose task is known and has a context, addressed to the context.
spawn_records(tasks, to_add, timestamp) ==
    IF /\ to_add # <<>>
       /\ to_add[1].data.kind = "TaskNew"
       /\ to_add[1].data.iid \in DOMAIN tasks
       /\ tasks[to_add[1].data.iid].task.context # NoIid
    THEN LET task == tasks[to_add[1].data.iid].task
         IN  <<[add_to |-> task.context,
                record |-> [timestamp |-> timestamp,
                            data |-> Data("Spawn", task.iid, task.context, 0)]]>>
    ELSE <<>>

RECURSIVE AddAll(_, _)
\* Delivers addressed records to their tasks, in order.
AddAll(tasks, addressed) ==
    IF addressed = <<>>
    THEN tasks
    ELSE AddAll(AddToTask(tasks, addressed[1].add_to, addressed[1].record),
                Tail(addressed))

RECURSIVE InsertByTimestamp(_, _)
InsertByTimestamp(sorted, record) ==
    IF sorted = <<>>
    THEN <<record>>
    ELSE LET last == sorted[Len(sorted)]
         IN  IF last.timestamp <= record.timestamp
             THEN Append(sorted, record)
             ELSE Append(InsertByTimestamp(SubSeq(sorted, 1, Len(sorted) - 1), record),
                         last)

RECURSIVE sort_by_key(_)
\* records.sort_by_key(|r| r.timestamp.clone()): a stable sort.
sort_by_key(records) ==
    IF records = <<>>
    THEN <<>>
    ELSE InsertByTimestamp(sort_by_key(SubSeq(records, 1, Len(records) - 1)),
                           records[Len(records)])

\* The state after the first loop of collect_tasks: one TaskRecords per task
\* object of the recording, DynamicIds in first-sight order.
InitCollect ==
    /\ InitWriter
    /\ \E known \in SUBSET CollectIids :
       \E context \in [known -> {NoIid} \cup CollectIids] :
          unit = [component |-> "collect_tasks",
                  pc |-> "records",
                  n |-> 0,
                  tasks |-> [iid \in known |->
                      TaskRecordsNew([iid |-> iid, context |-> context[iid]],
                                     Cardinality({j \in known : j <= iid}))],
                  seq_records |-> <<>>,
                  input |-> [kind |-> "Other", iid |-> NoIid, context |-> NoIid],
                  timestamp |-> 0,
                  emitted |-> <<>>]

\* One iteration of `for record in &seq_chunk.records`.
CollectRecord ==
    /\ unit.pc = "records"
    /\ unit.n < MaxCollectRecords
    /\ \E data \in RecordData :
       \E timestamp \in CollectTimestamps :
          LET to_add == records_to_add(unit.tasks, data)
              inc == IF data.kind \in {"WakerWake", "WakerWakeByRef"}
                        /\ data.iid \in DOMAIN unit.tasks
                     THEN [unit.tasks EXCEPT ![data.iid].greatest_wid = @ + 1]
                     ELSE unit.tasks
              spawned == AddAll(inc, spawn_records(inc, to_add, timestamp))
              addressed == [i \in 1..Len(to_add) |->
                              [add_to |-> to_add[i].add_to,
                               record |-> [timestamp |-> timestamp,
                                           data |-> to_add[i].data]]]
              to_tasks == SelectSeq(addressed, LAMBDA a : a.add_to # NoIid)
              to_seq == SelectSeq(addressed, LAMBDA a : a.add_to = NoIid)
          IN  unit' = [unit EXCEPT
                  !.n = @ + 1,
                  !.tasks = AddAll(spawned, to_tasks),
                  !.seq_records = @ \o [i \in 1..Len(to_seq) |-> to_seq[i].record],
                  !.input = data,
                  !.timestamp = timestamp,
                  !.emitted = to_add]
    /\ UNCHANGED program_vars

\* After the last record: every task's records are sorted by timestamp.
CollectSort ==
    /\ unit.pc = "records"
    /\ unit' = [unit EXCEPT
            !.pc = "sorted",
            !.tasks = [iid \in DOMAIN unit.tasks |->
                          [unit.tasks[iid] EXCEPT !.records = sort_by_key(@)]]]
    /\ UNCHANGED program_vars

NextCollect ==
    \/ CollectRecord
    \/ CollectSort

SpecCollect == InitCollect /\ [][NextCollect]_vars

\* The step is one iteration of the record loop.
CollectStep == unit.pc = "records" /\ unit'.pc = "records" /\ unit'.n = unit.n + 1

WokenCount(t) ==
    Cardinality({i \in 1..Len(t.records) :
                    t.records[i].data.kind \in {"WakerWokenConsume", "WakerWokenByRef"}})

\* C16: the WakerWoken and the WakerWake record of one wake carry the same
\* wid; it is the woken task's wake counter after the increment (the k-th
\* wake of a task has wid k), and it is 0 exactly when the woken task is
\* unknown.
C16_WakePairSharesWid ==
    [][(CollectStep /\ unit'.input.kind \in {"WakerWake", "WakerWakeByRef"}) =>
        LET woken == unit'.input.iid
            em == unit'.emitted
        IN  /\ Len(em) = 2
            /\ em[1].data.kind \in {"WakerWokenConsume", "WakerWokenByRef"}
            /\ em[2].data.kind \in {"WakerWakeConsume", "WakerWakeByRef"}
            /\ em[1].data.wid = em[2].data.wid
            /\ (em[1].data.wid = 0) <=> (woken \notin DOMAIN unit.tasks)
            /\ woken \in DOMAIN unit.tasks =>
                  /\ em[1].data.wid = unit.tasks[woken].greatest_wid + 1
                  /\ em[1].data.wid = unit'.tasks[woken].greatest_wid
                  /\ em[1].data.wid = WokenCount(unit'.tasks[woken])]_vars

\* The second wake of a known task was collected with wid 2 on both records.
C16_Witness ==
    /\ unit.component = "collect_tasks"
    /\ unit.input.kind \in {"WakerWake", "WakerWakeByRef"}
    /\ unit.input.iid \in DOMAIN unit.tasks
    /\ Len(unit.emitted) = 2
    /\ unit.emitted[1].data.wid = 2
    /\ unit.emitted[2].data.wid = 2

\* The Spawn records of one task's list, in order.
SpawnsIn(t) == SelectSeq(t.records, LAMBDA r : r.data.kind = "Spawn")

\* The Spawn record that a TaskNew of task iid with context c gives rise to.
SpawnOf(iid, c, timestamp) ==
    [timestamp |-> timestamp, data |-> Data("Spawn", iid, c, 0)]

\* The step collects a TaskNew record of a task that has a task object.
CollectTaskNew ==
    /\ CollectStep
    /\ unit'.input.kind = "TaskNew"
    /\ unit'.input.iid \in DOMAIN unit.tasks

\* C18 as stated: for every TaskNew{iid} whose task has context c, exactly one
\* Spawn{spawned_iid = iid, by_iid = c} with the TaskNew's timestamp is added
\* to the records of task c; none is produced when the context is unset.
C18_SpawnAddedToContext ==
    [][CollectTaskNew =>
        LET iid == unit'.input.iid
            c == unit.tasks[iid].task.context
        IN  /\ c # NoIid =>
                  /\ c \in DOMAIN unit'.tasks
                  /\ SpawnsIn(unit'.tasks[c]) =
                        Append(SpawnsIn(unit.tasks[c]), SpawnOf(iid, c, unit'.timestamp))
            /\ \A d \in DOMAIN unit.tasks \ {c} :
                  SpawnsIn(unit'.tasks[d]) = SpawnsIn(unit.tasks[d])]_vars

\* C18, amended: the Spawn record is added to the records of task c when the
\* recording holds a task object for c; no Spawn record is stored when the
\* context is unset or names a task without a task object.
C18_SpawnAddedToKnownContext ==
    [][CollectTaskNew =>
        LET iid == unit'.input.iid
            c == unit.tasks[iid].task.context
        IN  /\ DOMAIN unit'.tasks = DOMAIN unit.tasks
            /\ unit'.seq_records = unit.seq_records
            /\ \A d \in DOMAIN unit.tasks :
                  SpawnsIn(unit'.tasks[d]) =
                    IF d = c
                    THEN Append(SpawnsIn(unit.tasks[d]), SpawnOf(iid, c, unit'.timestamp))
                    ELSE SpawnsIn(unit.tasks[d])]_vars

\* A TaskNew of a task with a known context was collected at timestamp 1 and
\* the context's task holds the Spawn record.
C18_Witness ==
    /\ unit.component = "collect_tasks"
    /\ unit.pc = "records"
    /\ unit.input.kind = "TaskNew"
    /\ unit.timestamp = 1
    /\ unit.input.iid \in DOMAIN unit.tasks
    /\ LET c == unit.tasks[unit.input.iid].task.context
       IN  /\ c \in DOMAIN unit.tasks
           /\ c # unit.input.iid
           /\ SpawnOf(unit.input.iid, c, 1) \in
                 {unit.tasks[c].records[i] : i \in 1..Len(unit.tasks[c].records)}

-----------------------------------------------------------------------------
\* rfr-convert/src/perfetto.rs: FlowId as a pure function of (DynamicId, wid).
\* A flow id is a u64; the model keeps its three bit fields apart (bits 0..52
\* the DynamicId, bits 53..62 the wake bits, bit 63 the spawn bit), which is
\* the same value for every DynamicId that write_perfetto accepts (< 2^53).

FlowDids == {1, 2, 3}

FlowWids == {1, 2, MaskWakeBits, MaskWakeBits + 1, MaskWakeBits + 2}

\* A DynamicId used as a u64 with no flow bits set.
BareDynamicId(did) == [dynamic_id |-> did, wake |-> 0, spawn |-> FALSE]

InitFlow ==
    /\ InitWriter
    /\ \E a, b \in [did : FlowDids, wid : FlowWids] :
          unit = [component |-> "FlowId", pc |-> "input", a |-> a, b |-> b,
                  wake_a |-> BareDynamicId(0), wake_b |-> BareDynamicId(0),
                  spawn_b |-> BareDynamicId(0)]

\* The flow ids that write_perfetto attaches for wake a, wake b and the spawn
\* of b's task.
FlowCompute ==
    /\ unit.pc = "input"
    /\ unit' = [unit EXCEPT !.pc = "done",
                             !.wake_a = FlowIdWake(unit.a.did, unit.a.wid),
                             !.wake_b = FlowIdWake(unit.b.did, unit.b.wid),
                             !.spawn_b = FlowIdSpawn(unit.b.did)]
    /\ UNCHANGED program_vars

NextFlow == FlowCompute

SpecFlow == InitFlow /\ [][NextFlow]_vars

\* C17: for DynamicIds below 2^53, FlowId::wake yields different values for
\* different (DynamicId, wid) pairs with wid >= 1, and none of them equals a
\* spawn flow id or another task's bare DynamicId.
C17_WakeFlowIdsUnique ==
    (unit.component = "FlowId" /\ unit.pc = "done") =>
        /\ unit.a # unit.b => unit.wake_a # unit.wake_b
        /\ unit.wake_a # unit.spawn_b
        /\ unit.a.did # unit.b.did => unit.wake_a # BareDynamicId(unit.b.did)

-----------------------------------------------------------------------------
\* rfr/src/identifier.rs: FormatIdentifier::can_read_version.

MaxVersionPart == 2

FormatVariant == {"rfr-s", "rfr-c"}

FormatIdentifier ==
    [variant : FormatVariant, major : 0..MaxVersionPart, minor : 0..MaxVersionPart,
     patch : 0..MaxVersionPart]

\* current.can_read_version(version), with the early returns in the order of
\* the code.
can_read_version(current, version) ==
    IF current.variant # version.variant THEN FALSE
    ELSE IF current.major # version.major THEN FALSE
    ELSE IF current.major = 0 /\ current.minor # version.minor THEN FALSE
    ELSE IF current.major = 0 /\ current.minor = 0 /\ current.patch # version.patch
         THEN FALSE
    ELSE IF current.major = 0 /\ current.patch >= version.patch THEN TRUE
    ELSE IF current.minor >= version.minor THEN TRUE
    ELSE FALSE

InitVersion ==
    /\ InitWriter
    /\ \E current, version \in FormatIdentifier :
          unit = [component |-> "can_read_version", pc |-> "call",
                  current |-> current, version |-> version, result |-> FALSE]

CanReadVersion ==
    /\ unit.pc = "call"
    /\ unit' = [unit EXCEPT !.pc = "returned",
                             !.result = can_read_version(unit.current, unit.version)]
    /\ UNCHANGED program_vars

NextVersion == CanReadVersion

SpecVersion == InitVersion /\ [][NextVersion]_vars

\* C19: can_read_version is true exactly when variant and major are the same
\* and: for 0.0.x minor and patch are the same; for 0.y.x (y > 0) the minor
\* is the same and the reader's patch is not below the writer's; for major
\* >= 1 the reader's (minor, patch) is not below the writer's,
\* lexicographically.
C19_CanReadVersionRule ==
    (unit.component = "can_read_version" /\ unit.pc = "returned") =>
        LET r == unit.current
            w == unit.version
        IN  unit.result <=>
              /\ r.variant = w.variant
              /\ r.major = w.major
              /\ CASE r.major = 0 /\ r.minor = 0 ->
                        r.minor = w.minor /\ r.patch = w.patch
                   [] r.major = 0 /\ r.minor > 0 ->
                        r.minor = w.minor /\ r.patch >= w.patch
                   [] OTHER ->
                        r.minor > w.minor \/ (r.minor = w.minor /\ r.patch >= w.patch)

-----------------------------------------------------------------------------
\* rfr/src/chunked/read.rs: loading one chunk file.

MaxFileSeqChunks == 2

\* chunked::current_software_version()
current_software_version ==
    [variant |-> "rfr-c", major |-> 0, minor |-> 0, patch |-> 2]

\* What follows the chunk header in a file: the announced number of sequence
\* chunks and the entries that are there; an entry either deserializes to a
\* sequence chunk or fails to ("corrupt"); fewer entries than announced is a
\* file that ends early.
ChunkFiles ==
    UNION {[identifier : FormatIdentifier, seq_chunk_len : {len},
            entries : UNION {[1..n -> {"seq_chunk", "corrupt"}] : n \in 0..len}]
           : len \in 0..MaxFileSeqChunks}

RECURSIVE ReadSeqChunks(_, _, _)
\* The 'seq_chunk loop: stops at the end of the file, fails on an entry that
\* does not deserialize.
ReadSeqChunks(file, idx, seq_chunks) ==
    IF idx > file.seq_chunk_len \/ idx > Len(file.entries)
    THEN [ok |-> TRUE, seq_chunks |-> seq_chunks]
    ELSE IF file.entries[idx] = "corrupt"
         THEN [ok |-> FALSE, seq_chunks |-> <<>>]
         ELSE ReadSeqChunks(file, idx + 1, Append(seq_chunks, idx))

\* read_chunk_from_io: the identifier is deserialized and dropped
\* (`_identifier`), then the header and the sequence chunks are read.
read_chunk_from_io(file) == ReadSeqChunks(file, 1, <<>>)

InitChunkRead ==
    /\ InitWriter
    /\ \E file \in ChunkFiles :
          unit = [component |-> "ChunkLoader", file |-> file, state |-> "Unloaded",
                  seq_chunks |-> <<>>, failed |-> FALSE]

\* ChunkLoader::ensure_header: the identifier is deserialized and dropped,
\* the header is kept.
ensure_header ==
    /\ unit.state = "Unloaded"
    /\ unit' = [unit EXCEPT !.state = "Header"]
    /\ UNCHANGED program_vars

\* ChunkLoader::ensure_chunk: an error of read_chunk_from_io is printed and
\* the loader keeps its state.
ensure_chunk ==
    /\ unit.state \in {"Unloaded", "Header"}
    /\ LET read == read_chunk_from_io(unit.file)
       IN  unit' = IF read.ok
                   THEN [unit EXCEPT !.state = "Chunk", !.seq_chunks = read.seq_chunks]
                   ELSE [unit EXCEPT !.failed = TRUE]
    /\ UNCHANGED program_vars

NextChunkRead ==
    \/ ensure_header
    \/ ensure_chunk

SpecChunkRead == InitChunkRead /\ [][NextChunkRead]_vars

\* C20: a chunk file whose format identifier the reader's current
\* chunked-format version cannot read is rejected; the loader never holds the
\* chunk, so none of its sequence chunks are returned.
C20_IncompatibleChunkRejected ==
    (/\ unit.component = "ChunkLoader"
     /\ ~can_read_version(current_software_version, unit.file.identifier))
        => (unit.state # "Chunk" /\ unit.seq_chunks = <<>>)

-----------------------------------------------------------------------------
\* rfr/src/chunked/read.rs: read_chunk_from_io, one decoding attempt at a
\* time. The file does not change while it is read. postcard::from_io is
\* taken by its contract: an element that ends before it is complete, or that
\* needs more scratch space than the buffer has, gives
\* DeserializeUnexpectedEnd.

InitialBufferSize == 1024

\* const MAX_BUFFER_SIZE: usize = 1 << 20
MaxBufferSize == 1048576

\* Scratch space one sequence chunk needs: within the initial buffer, or more.
ElementNeeds == {512, 3000}

\* Length in the file of a complete and of a cut-off element (half units).
ElementLen(entry) == IF entry.kind = "truncated" THEN 1 ELSE 2

\* Chunk files with a readable identifier, header and count; only the last
\* element can be cut off by the end of the file.
ReadableChunkFiles ==
    UNION {{[identifier |-> current_software_version, seq_chunk_len |-> len,
             entries |-> entries] :
              entries \in {e \in [1..n -> [kind : {"seq_chunk", "corrupt", "truncated"},
                                            need : ElementNeeds]] :
                              \A i \in 1..n : e[i].kind = "truncated" => i = n}}
           : <<len, n>> \in {ln \in (0..MaxFileSeqChunks) \X (0..MaxFileSeqChunks) :
                                ln[2] <= ln[1]}}

RECURSIVE PosOf(_, _)
\* The stream position of the start of element k.
PosOf(entries, k) ==
    IF k <= 1 THEN 0 ELSE PosOf(entries, k - 1) + ElementLen(entries[k - 1])

EndPos(entries) == PosOf(entries, Len(entries) + 1)

\* The variant of grown_buffer_len that leaves the buffer as it is.
grown_buffer_len_same(len) == len

\* new_size = buffer.len() * 2; buffer.resize(new_size * 2, 0)
grown_buffer_len(len) == (len * 2) * 2

InitReadChunk ==
    /\ InitWriter
    /\ \E file \in ReadableChunkFiles :
          unit = [component |-> "read_chunk_from_io", file |-> file, pc |-> "start",
                  end_pos |-> 0, element |-> 1, idx |-> 0,
                  buffer_len |-> 0, seq_chunks |-> <<>>, result |-> "none"]

\* Lines 145-166: the file length is taken, then the identifier, the header
\* and the number of sequence chunks are read.
ReadChunkHeader ==
    /\ unit.pc = "start"
    /\ unit' = [unit EXCEPT !.pc = "seq_chunk",
                             !.end_pos = EndPos(unit.file.entries),
                             !.buffer_len = InitialBufferSize]
    /\ UNCHANGED program_vars

\* One pass of the inner `loop` for index idx of 'seq_chunk; `element` is the
\* element at the stream position (one past the last when at the end).
ReadChunkAttempt ==
    /\ unit.pc = "seq_chunk"
    /\ LET entries == unit.file.entries
           file_pos == PosOf(entries, unit.element)
           Return(result) == [unit EXCEPT !.pc = "returned", !.result = result]
       IN  unit' =
             IF unit.idx >= unit.file.seq_chunk_len
             THEN Return("Ok")
             ELSE IF file_pos >= unit.end_pos
             THEN \* the file has not grown: break 'seq_chunk
                  Return("Ok")
             ELSE LET entry == entries[unit.element]
                  IN  IF entry.kind = "corrupt"
                      THEN [Return("DeserializeError") EXCEPT !.seq_chunks = <<>>]
                      ELSE IF entry.kind = "seq_chunk" /\ entry.need <= unit.buffer_len
                      THEN [unit EXCEPT !.seq_chunks = Append(@, unit.element),
                                        !.element = @ + 1,
                                        !.idx = @ + 1]
                      ELSE IF unit.buffer_len * 2 > MaxBufferSize
                      THEN \* skipped: continue 'seq_chunk, the stream stays
                           \* where the failed read left it
                           [unit EXCEPT !.element = @ + 1, !.idx = @ + 1]
                      ELSE [unit EXCEPT !.buffer_len = grown_buffer_len(@)]
    /\ UNCHANGED program_vars

NextReadChunk ==
    \/ ReadChunkHeader
    \/ ReadChunkAttempt

\* The function runs to its return.
SpecReadChunk == InitReadChunk /\ [][NextReadChunk]_vars /\ WF_vars(NextReadChunk)

LastTruncated(file) ==
    /\ file.entries # <<>>
    /\ file.entries[Len(file.entries)].kind = "truncated"
    /\ \A i \in 1..Len(file.entries) : file.entries[i].kind # "corrupt"

-----------------------------------------------------------------------------
\* rfr/src/chunked/read.rs: Recording::chunks_lossy over the chunk files of a
\* recording.

MaxChunkFiles == 3

\* The chunk files a recording directory can hold: the part before the
\* sequence chunks (identifier, header, count) deserializes or does not, and
\* the sequence chunk deserializes or does not.
RecordingFiles ==
    [header_readable : BOOLEAN, identifier : {current_software_version},
     seq_chunk_len : {1}, entries : {<<"seq_chunk">>, <<"corrupt">>}]

InitRecording ==
    /\ InitWriter
    /\ \E n \in 1..MaxChunkFiles :
       \E files \in [1..n -> RecordingFiles] :
          unit = [component |-> "Recording", files |-> files,
                  state |-> [i \in 1..n |-> "Unloaded"],
                  yielded |-> <<>>, panicked |-> FALSE]

\* One item of the chunks_lossy iterator: ensure_chunk on the next loader,
\* then Some(chunk) if the loader holds a chunk. The identifier, the header
\* and the count are read with unwrap(), so a file in which they do not
\* deserialize panics the caller.
chunks_lossy_next ==
    /\ ~unit.panicked
    /\ Len(unit.yielded) < Len(unit.files)
    /\ LET i == Len(unit.yielded) + 1
           file == unit.files[i]
       IN  unit' =
             IF ~file.header_readable
             THEN [unit EXCEPT !.panicked = TRUE]
             ELSE IF read_chunk_from_io(file).ok
             THEN [unit EXCEPT !.state[i] = "Chunk", !.yielded = Append(@, "Some")]
             ELSE [unit EXCEPT !.yielded = Append(@, "None")]
    /\ UNCHANGED program_vars

NextRecording == chunks_lossy_next

SpecRecording == InitRecording /\ [][NextRecording]_vars

\* The file cannot be loaded: some part of it does not deserialize.
FailsToLoad(file) == ~file.header_readable \/ file.entries # <<"seq_chunk">>

\* C22: for any contents of the chunk files, chunks_lossy yields None for
\* each file that fails to load, Some for every other one, and the iteration
\* goes on to the remaining chunks without aborting.
C22_LossyIterationSkipsFailures ==
    unit.component = "Recording" =>
        /\ ~unit.panicked
        /\ \A i \in 1..Len(unit.yielded) :
              unit.yielded[i] = IF FailsToLoad(unit.files[i]) THEN "None" ELSE "Some"

-----------------------------------------------------------------------------
\* rfr/src/chunked/mod.rs: ChunkInterval::from_timestamp_and_period as a
\* function of the timestamp and the period.

MaxIntervalSecs == 4

\* Periods that divide one second evenly or are a multiple of it.
IntervalPeriods == {1, 250000, 500000, 1000000, 2000000, 3000000}

IntervalTimestamps ==
    [secs : 0..MaxIntervalSecs,
     subsec_micros : {0, 1, 249999, 250000, 499999, 500000, 999999}]

InitInterval ==
    /\ InitWriter
    /\ \E timestamp \in IntervalTimestamps :
       \E period_micros \in IntervalPeriods :
          unit = [component |-> "ChunkInterval", pc |-> "call",
                  timestamp |-> timestamp, period_micros |-> period_micros,
                  interval |-> [base_time |-> 0, start_time |-> 0, end_time |-> 0]]

IntervalFromTimestamp ==
    /\ unit.pc = "call"
    /\ unit' = [unit EXCEPT
            !.pc = "returned",
            !.interval = from_timestamp_and_period(unit.timestamp, unit.period_micros)]
    /\ UNCHANGED program_vars

NextInterval == IntervalFromTimestamp

SpecInterval == InitInterval /\ [][NextInterval]_vars

\* C23: for a timestamp with subsec_micros < 1 000 000 and a period that
\* divides one second evenly or is a multiple of it, the interval of the
\* timestamp has abs_start_time <= timestamp < abs_end_time, and its end is
\* its start plus the period.
C23_IntervalContainsTimestamp ==
    (unit.component = "ChunkInterval" /\ unit.pc = "returned") =>
        LET start == abs_start_time(unit.interval)
            end == abs_end_time(unit.interval)
        IN  /\ ~AbsCmpGreater(start, unit.timestamp)
            /\ AbsCmpGreater(end, unit.timestamp)
            /\ as_duration_since_epoch(end)
                  = as_duration_since_epoch(start) + unit.period_micros

\* The interval of a timestamp late in an odd second was computed for a period
\* of two seconds: it starts one second earlier.
C23_Witness ==
    /\ unit.component = "ChunkInterval"
    /\ unit.pc = "returned"
    /\ unit.period_micros = 2000000
    /\ unit.timestamp = [secs |-> 3, subsec_micros |-> 999999]
    /\ abs_start_time(unit.interval) = [secs |-> 2, subsec_micros |-> 0]
    /\ abs_end_time(unit.interval) = [secs |-> 4, subsec_micros |-> 0]

-----------------------------------------------------------------------------
\* rfr/src/chunked/write.rs: ChunkedWriter::try_new against a file system.

MaxTryNewCalls == 2

RecordingPaths == {1, 2}

\* What a path holds: nothing, a regular file, or a directory with the listed
\* parts of a recording in it.
PathStates ==
    {"absent", "file", "empty_dir", "dir_meta", "dir_meta_callsites", "recording"}

\* The step of try_new at which the file system returns an error, if any.
IoFailures ==
    {"none", "create_dir_all", "meta_create_new", "meta_to_io", "callsites_create",
     "callsites_to_io", "ensure_dir"}

\* The variant of try_exists that only sees a directory holding a meta file.
try_exists_meta(entry) == entry \in {"dir_meta", "dir_meta_callsites", "recording"}

\* root_dir.try_exists() gives Ok(true)
try_exists(entry) == entry # "absent"

\* try_new on a path in state `entry`, with the file system failing at step
\* `failure`: the result and the state the path is left in.
try_new(entry, failure) ==
    LET Err(error, left) == [result |-> error, entry |-> left]
        has_meta == entry \in {"dir_meta", "dir_meta_callsites", "recording"}
    IN  IF try_exists(entry) THEN Err("AlreadyExists", entry)
        ELSE IF entry = "file" \/ failure = "create_dir_all"
        THEN Err("CreateRecordingDirFailed", entry)
        ELSE IF has_meta THEN Err("AlreadyExists", entry)
        ELSE IF failure = "meta_create_new" THEN Err("WriteMetaFailed", "empty_dir")
        ELSE IF failure = "meta_to_io" THEN Err("WriteMetaFailed", "dir_meta")
        ELSE IF failure = "callsites_create" THEN Err("WriteCallsitesFailed", "dir_meta")
        ELSE IF failure = "callsites_to_io"
        THEN Err("WriteCallsitesFailed", "dir_meta_callsites")
        ELSE IF failure = "ensure_dir" THEN Err("panic", "dir_meta_callsites")
        ELSE [result |-> "Ok", entry |-> "recording"]

InitTryNew ==
    /\ InitWriter
    /\ \E fs \in [RecordingPaths -> PathStates] :
          unit = [component |-> "try_new", fs |-> fs, calls |-> 0,
                  root_dir |-> 1, result |-> "none"]

TryNew ==
    /\ unit.calls < MaxTryNewCalls
    /\ \E root_dir \in RecordingPaths :
       \E failure \in IoFailures :
          LET new == try_new(unit.fs[root_dir], failure)
          IN  unit' = [unit EXCEPT !.fs[root_dir] = new.entry,
                                   !.calls = @ + 1,
                                   !.root_dir = root_dir,
                                   !.result = new.result]
    /\ UNCHANGED program_vars

NextTryNew == TryNew

SpecTryNew == InitTryNew /\ [][NextTryNew]_vars

-----------------------------------------------------------------------------
\* rfr/src/chunked/write.rs: write_all_chunks next to a producer and
\* write_completed_chunks. The call holds the lock of the chunk buffer table
\* from its start to its end, like write_completed_chunks, and writes each
\* chunk with ChunkBuffer::write (FoldEarliest, FoldLatest, WriteSeq).

MaxWriteAlls == 2

\* unit.active: a write_all_chunks call is running; bufs_at_start: the
\* sequence buffers when it began; calls: calls begun so far; len_at_end: the
\* number of records accepted when each call ended.
InitWriteAll ==
    /\ InitWriter
    /\ unit = [component |-> "write_all_chunks", active |-> FALSE, calls |-> 0,
               bufs_at_start |-> <<>>, len_at_end |-> <<>>]

\* lines 265-267: flush the callsites, lock the table
WacStart ==
    /\ fpc = "idle"
    /\ unit.calls < MaxWriteAlls
    /\ callsites_file' = callsites_file \o flush_to_write(callsites, written_callsites)
    /\ written_callsites' = Max(written_callsites, Len(callsites))
    /\ fpc' = "all"
    /\ fidx' = 1
    /\ unit' = [unit EXCEPT !.active = TRUE, !.calls = @ + 1,
                            !.bufs_at_start = seq_buffers]
    /\ UNCHANGED <<now, writer_vars, callsites, producer_vars, fj, fe, facc, wcc_start,
                   ack_vars, seq_vars>>

\* lines 269-271: the file of the next chunk buffer is created and
\* ChunkBuffer::write begins
WacOpen ==
    /\ fpc = "all"
    /\ fidx <= Len(chunk_buffers)
    /\ LET cb == chunk_buffers[fidx]
       IN  /\ disk' = (chunk_path(cb.header.interval.base_time) :>
                          [header |-> <<>>, count |-> 0, seq_chunks |-> <<>>]) @@ disk
           /\ facc' = <<cb.header.earliest_timestamp, cb.header.latest_timestamp>>
    /\ fpc' = "fold_earliest"
    /\ fj' = 1
    /\ UNCHANGED <<now, chunk_buffers, seq_buffers, callsite_vars, producer_vars, fidx, fe,
                   wcc_start, ack_vars, seq_vars, unit>>

\* The variant of WacNext that discards the chunk buffer it has written.
WacNextDiscard ==
    /\ fpc = "notify"
    /\ unit.active
    /\ fpc' = "all"
    /\ chunk_buffers' = RemoveAt(chunk_buffers, fidx)
    /\ UNCHANGED <<now, seq_buffers, disk, callsite_vars, producer_vars, fidx, fj, fe, facc,
                   wcc_start, ack_vars, seq_vars, unit>>

\* ChunkBuffer::write returned: for_each goes on to the next chunk buffer,
\* the one written stays in the table
WacNext ==
    /\ fpc = "notify"
    /\ unit.active
    /\ fpc' = "all"
    /\ fidx' = fidx + 1
    /\ UNCHANGED <<now, writer_vars, callsite_vars, producer_vars, fj, fe, facc, wcc_start,
                   ack_vars, seq_vars, unit>>

\* line 275: the table's lock is released and the call returns
WacEnd ==
    /\ fpc = "all"
    /\ fidx > Len(chunk_buffers)
    /\ fpc' = "idle"
    /\ fidx' = 0
    /\ fj' = 0
    /\ fe' = 0
    /\ facc' = <<0, 0>>
    /\ unit' = [unit EXCEPT !.active = FALSE, !.len_at_end = Append(@, Len(accepted))]
    /\ UNCHANGED <<now, writer_vars, callsite_vars, producer_vars, wcc_start, ack_vars, seq_vars>>

\* One producer, write_completed_chunks and write_all_chunks.
NextWriteAll ==
    \/ Tick
    \/ Sleep
    \/ Stamp(1)
    \/ \E c \in CallsiteIds : with_seq_chunk_buffer(1, c)
    \/ WccStart
    \/ RetainCheck
    \/ FoldEarliest
    \/ FoldLatest
    \/ WriteSeq
    \/ (~unit.active /\ NotifyWritten)
    \/ WccEnd
    \/ WacStart
    \/ WacOpen
    \/ WacNext
    \/ WacEnd

SpecWriteAll == InitWriteAll /\ [][NextWriteAll]_vars

\* A step of write_all_chunks.
WriteAllStep ==
    \/ WacStart
    \/ WacOpen
    \/ (unit.active /\ (FoldEarliest \/ FoldLatest \/ WriteSeq))
    \/ WacNext
    \/ WacEnd

\* The ids of the records in a sequence of buffers or of written chunks.
RidsIn(chunks) ==
    UNION {{chunks[k].records[r].data.rid : r \in 1..Len(chunks[k].records)} :
                k \in 1..Len(chunks)}

\* The file of chunk buffer cb holds every record that its sequence buffers
\* held in `bufs`.
ChunkOnDisk(cb, bufs, files) ==
    LET path == chunk_path(cb.header.interval.base_time)
        ids == SelectSeq(cb.seq_chunks, LAMBDA id : id <= Len(bufs))
    IN  /\ path \in DOMAIN files
        /\ RidsIn([k \in 1..Len(ids) |-> bufs[ids[k]]]) \subseteq RidsIn(files[path].seq_chunks)

\* C25: write_all_chunks writes every chunk buffer of the table to disk and
\* leaves the table and its buffers as they are; a later write of a chunk, by
\* write_completed_chunks or write_all_chunks, holds every record that its
\* buffers held when that write began, those appended after an earlier
\* write_all_chunks included.
C25_WriteAllKeepsBuffers ==
    [][/\ WriteAllStep => UNCHANGED <<chunk_buffers, seq_buffers>>
       /\ WacEnd => \A k \in 1..Len(chunk_buffers) :
                        ChunkOnDisk(chunk_buffers[k], unit.bufs_at_start, disk)
       /\ (~unit.active /\ fpc = "write_seq" /\ fpc' = "notify") =>
                        ChunkOnDisk(chunk_buffers[fidx], wcc_start.bufs, disk')]_vars

\* A second write_all_chunks ended with a record on disk that was appended,
\* after the first one ended, to a buffer the first one had written.
C25_Witness ==
    /\ unit.component = "write_all_chunks"
    /\ unit.calls = 2
    /\ ~unit.active
    /\ fpc = "idle"
    /\ Len(seq_buffers) = 1
    /\ Len(chunk_buffers) = 1
    /\ unit.len_at_end = <<1, 2>>
    /\ Len(unit.bufs_at_start[1].records) = 2
    /\ OnDisk(1)
    /\ OnDisk(2)

-----------------------------------------------------------------------------
\* rfr/src/chunked/callsite.rs: ChunkedCallsitesWriter on its own. A callsite
\* is its id and a value that stands for its other fields.

MaxPushes == 3

PushedCallsites == [callsite_id : {1, 2}, value : {1, 2}]

\* ChunkedCallsitesWriter::try_new; history holds every callsite handed to
\* push_callsite, last and result the last call and what it returned.
InitCallsites ==
    /\ InitWriter
    /\ unit = [component |-> "callsites", callsites |-> <<>>, written_callsites |-> 0,
               writer |-> <<>>, history |-> <<>>, last |-> "try_new", result |-> "Ok"]

PushCallsite ==
    /\ Len(unit.history) < MaxPushes
    /\ \E callsite \in PushedCallsites :
        LET list == push_callsite(unit.callsites, callsite)
        IN  unit' = [unit EXCEPT !.callsites = list,
                                 !.history = Append(@, callsite),
                                 !.last = "push_callsite",
                                 !.result = IF list = unit.callsites THEN "Duplicate"
                                            ELSE "Added"]
    /\ UNCHANGED program_vars

\* ChunkedCallsitesWriter::needs_flush
needs_flush(written, list) == written = Len(list)

NeedsFlush ==
    /\ unit' = [unit EXCEPT !.last = "needs_flush",
                            !.result = needs_flush(unit.written_callsites, unit.callsites)]
    /\ UNCHANGED program_vars

\* ChunkedCallsitesWriter::flush: the writer takes `wrote` of the unwritten
\* callsites, all of them unless it fails on one, and written_callsites
\* counts each callsite it took.
FlushCallsites ==
    /\ LET to_write == flush_to_write(unit.callsites, unit.written_callsites)
       IN  \E wrote \in 0..Len(to_write) :
            /\ unit' = [unit EXCEPT !.writer = @ \o SubSeq(to_write, 1, wrote),
                                    !.written_callsites = @ + wrote,
                                    !.last = "flush",
                                    !.result = IF wrote = Len(to_write) THEN "Ok"
                                               ELSE "FlushCallsitesError"]
    /\ UNCHANGED program_vars

NextCallsites ==
    \/ PushCallsite
    \/ NeedsFlush
    \/ FlushCallsites

SpecCallsites == InitCallsites /\ [][NextCallsites]_vars

\* The first position of callsite id c in the history of registrations.
FirstRegistration(c) ==
    CHOOSE i \in 1..Len(unit.history) :
        /\ unit.history[i].callsite_id = c
        /\ \A j \in 1..(i - 1) : unit.history[j].callsite_id # c

C27_NeedsFlushIffUnwritten ==
    (unit.component = "callsites" /\ unit.last = "needs_flush") =>
        (unit.result <=> unit.written_callsites < Len(unit.callsites))

-----------------------------------------------------------------------------
\* C28: once write_completed_chunks has written the chunk file of an
\* interval, the records in that file stay on disk whatever is appended and
\* flushed afterwards: no step takes a record out of the chunk files.
C28_WrittenRecordsStay ==
    [][\A rid \in 1..MaxRecords : OnDisk(rid) => OnDisk(rid)']_vars

-----------------------------------------------------------------------------
\* rfr/src/chunked/write.rs: the mutexes of ChunkedWriter and the threads that
\* take them. A thread is <<kind, index>>, a mutex <<name, index>>; every call
\* is one step per lock, unlock or wait. Each producer has one sequence
\* buffer and each waiter one notifier; get_objects, the caller's closure
\* that append_record runs under the buffer's lock, takes none of these
\* mutexes.

LockProducers == {1, 2}

LockWaiters == {1}

NoThread == <<"none", 0>>

NoMutex == <<"none", 0>>

CallsitesWriterMutex == <<"callsites_writer", 0>>

ChunkBuffersMutex == <<"chunk_buffers", 0>>

NotifiersMutex == <<"notifiers", 0>>

BufferMutex(p) == <<"buffer", p>>

PairMutex(w) == <<"pair", w>>

Mutexes ==
    {CallsitesWriterMutex, ChunkBuffersMutex, NotifiersMutex}
        \cup {BufferMutex(p) : p \in LockProducers} \cup {PairMutex(w) : w \in LockWaiters}

Completed == <<"completed", 0>>

All == <<"all", 0>>

Closer == <<"close", 0>>

Flushers == {Completed, All}

LockThreads ==
    {<<"producer", p>> : p \in LockProducers} \cup Flushers
        \cup {<<"waiter", w>> : w \in LockWaiters} \cup {Closer}

\* owner: the thread that holds each mutex; held: the mutexes a thread holds,
\* in the order it took them; local: the producers with a thread-local
\* buffer; table: the buffers in the chunk buffer table; list: the notifiers
\* in the list; notified: the notifiers with a value; todo, ntodo, cur, ncur,
\* pass: where a flusher or close stands in its iteration.
InitLocks ==
    /\ InitWriter
    /\ unit = [component |-> "locks",
               owner |-> [m \in Mutexes |-> NoThread],
               held |-> [t \in LockThreads |-> <<>>],
               pc |-> [t \in LockThreads |-> "idle"],
               local |-> {}, table |-> {}, list |-> {}, notified |-> {},
               todo |-> [t \in Flushers |-> {}],
               ntodo |-> {},
               cur |-> [t \in Flushers |-> 0],
               ncur |-> [t \in {Completed, Closer} |-> 0],
               pass |-> [t \in Flushers |-> 0]]

\* The mutex whose lock() the thread is in.
Wants(t) ==
    CASE unit.pc[t] \in {"register_callsite", "flush_callsites"} -> CallsitesWriterMutex
      [] unit.pc[t] \in {"create_seq_chunk_buffer", "write_completed_chunks",
                         "write_all_chunks"} -> ChunkBuffersMutex
      [] unit.pc[t] = "append_record" -> BufferMutex(t[2])
      [] unit.pc[t] = "seq_lock" -> BufferMutex(unit.cur[t])
      [] unit.pc[t] \in {"wait_for_write_timeout", "close", "notifiers_lock"} -> NotifiersMutex
      [] unit.pc[t] \in {"wait_lock", "cv_reacquire"} -> PairMutex(t[2])
      [] unit.pc[t] = "notify" -> PairMutex(unit.ncur[t])
      [] OTHER -> NoMutex

Goto(u, t, to) == [u EXCEPT !.pc[t] = to]

\* Mutex::lock returned
Lock(u, t, m, to) ==
    [u EXCEPT !.owner[m] = t, !.held[t] = Append(@, m), !.pc[t] = to]

\* the guard is dropped
Unlock(u, t, m, to) ==
    [u EXCEPT !.owner[m] = NoThread,
              !.held[t] = SelectSeq(@, LAMBDA x : x # m),
              !.pc[t] = to]

\* The thread's lock() succeeds: the mutex is free.
TryLock(t, from, to) ==
    /\ unit.pc[t] = from
    /\ unit.owner[Wants(t)] = NoThread
    /\ unit' = Lock(unit, t, Wants(t), to)

MinOf(set) == CHOOSE x \in set : \A y \in set : x <= y

\* register_callsite, lines 139-146
LockRegisterCallsite(p) ==
    LET t == <<"producer", p>>
    IN  /\ \/ unit.pc[t] = "idle" /\ unit' = Goto(unit, t, "register_callsite")
           \/ TryLock(t, "register_callsite", "push_callsite")
           \/ /\ unit.pc[t] = "push_callsite"
              /\ unit' = Unlock(unit, t, CallsitesWriterMutex, "idle")
        /\ UNCHANGED program_vars

\* with_seq_chunk_buffer, lines 148-197, and the append_record its closure
\* calls (sequence.rs 159-226): the thread-local buffer is used or
\* create_seq_chunk_buffer locks the table for a new one.
LockWithSeqChunkBuffer(p) ==
    LET t == <<"producer", p>>
    IN  /\ \/ /\ unit.pc[t] = "idle"
              /\ \/ unit' = Goto(unit, t, "create_seq_chunk_buffer")
                 \/ p \in unit.local /\ unit' = Goto(unit, t, "append_record")
           \/ TryLock(t, "create_seq_chunk_buffer", "new_seq_chunk_buffer")
           \/ /\ unit.pc[t] = "new_seq_chunk_buffer"
              /\ unit' = [Unlock(unit, t, ChunkBuffersMutex, "append_record")
                            EXCEPT !.table = @ \cup {p}, !.local = @ \cup {p}]
           \/ TryLock(t, "append_record", "get_objects")
           \/ /\ unit.pc[t] = "get_objects"
              /\ unit' = Unlock(unit, t, BufferMutex(p), "idle")
        /\ UNCHANGED program_vars

\* ChunkBuffer::write, lines 519-545: the buffer of the chunk is locked for
\* earliest_timestamp, for latest_timestamp and for SeqChunkBuffer::write.
LockChunkBufferWrite(t, after) ==
    \/ TryLock(t, "seq_lock", "seq_held")
    \/ /\ unit.pc[t] = "seq_held"
       /\ unit' = IF unit.pass[t] < 3
                  THEN [Unlock(unit, t, BufferMutex(unit.cur[t]), "seq_lock")
                            EXCEPT !.pass[t] = @ + 1]
                  ELSE [Unlock(unit, t, BufferMutex(unit.cur[t]), after)
                            EXCEPT !.pass[t] = 0]

\* The variant in which write_completed_chunks keeps the callsites writer
\* locked after flush_callsites.
write_completed_flush_callsites_held(u, t) == Goto(u, t, "retain")

\* write_completed_chunks, line 220: flush_callsites returns
write_completed_flush_callsites(u, t) == Unlock(u, t, CallsitesWriterMutex, "retain")

\* write_completed_chunks, lines 213-256
LockWriteCompletedChunks ==
    LET t == Completed
    IN  /\ \/ unit.pc[t] = "idle" /\ unit' = Goto(unit, t, "write_completed_chunks")
           \/ TryLock(t, "write_completed_chunks", "flush_callsites")
           \/ TryLock(t, "flush_callsites", "flush")
           \/ /\ unit.pc[t] = "flush"
              /\ unit' = [write_completed_flush_callsites(unit, t)
                            EXCEPT !.todo[t] = unit.table]
           \/ /\ unit.pc[t] = "retain"
              /\ IF unit.todo[t] = {}
                 THEN unit' = Unlock(unit, t, ChunkBuffersMutex, "idle")
                 ELSE LET b == MinOf(unit.todo[t])
                      IN  \/ unit' = [unit EXCEPT !.todo[t] = @ \ {b}]
                          \/ unit' = [unit EXCEPT !.cur[t] = b, !.pass[t] = 1,
                                                  !.pc[t] = "seq_lock"]
           \/ LockChunkBufferWrite(t, "notifiers_lock")
           \/ /\ unit.pc[t] = "notifiers_lock"
              /\ unit.owner[Wants(t)] = NoThread
              /\ unit' = [Lock(unit, t, Wants(t), "notifiers_retain")
                            EXCEPT !.ntodo = unit.list]
           \/ /\ unit.pc[t] = "notifiers_retain"
              /\ IF unit.ntodo = {}
                 THEN unit' = [Unlock(unit, t, NotifiersMutex, "retain")
                                EXCEPT !.table = @ \ {unit.cur[t]},
                                       !.todo[t] = @ \ {unit.cur[t]},
                                       !.cur[t] = 0]
                 ELSE LET w == MinOf(unit.ntodo)
                      IN  \/ unit' = [unit EXCEPT !.ntodo = @ \ {w}]
                          \/ unit' = [unit EXCEPT !.ntodo = @ \ {w}, !.list = @ \ {w},
                                                  !.ncur[t] = w,
                                                  !.pc[t] = "notify"]
           \/ TryLock(t, "notify", "notify_held")
           \/ /\ unit.pc[t] = "notify_held"
              /\ unit' = [Unlock(unit, t, PairMutex(unit.ncur[t]), "notifiers_retain")
                            EXCEPT !.notified = @ \cup {unit.ncur[t]}, !.ncur[t] = 0]
        /\ UNCHANGED program_vars

\* The variant in which write_all_chunks keeps the callsites writer locked
\* after flush_callsites.
write_all_flush_callsites_held(u, t) == Goto(u, t, "write_all_chunks")

\* write_all_chunks, line 265: flush_callsites returns
write_all_flush_callsites(u, t) == Unlock(u, t, CallsitesWriterMutex, "write_all_chunks")

\* write_all_chunks, lines 263-275
LockWriteAllChunks ==
    LET t == All
    IN  /\ \/ unit.pc[t] = "idle" /\ unit' = Goto(unit, t, "flush_callsites")
           \/ TryLock(t, "flush_callsites", "flush")
           \/ /\ unit.pc[t] = "flush"
              /\ unit' = write_all_flush_callsites(unit, t)
           \/ /\ unit.pc[t] = "write_all_chunks"
              /\ unit.owner[Wants(t)] = NoThread
              /\ unit' = [Lock(unit, t, Wants(t), "for_each") EXCEPT !.todo[t] = unit.table]
           \/ /\ unit.pc[t] = "for_each"
              /\ IF unit.todo[t] = {}
                 THEN unit' = [Unlock(unit, t, ChunkBuffersMutex, "idle") EXCEPT !.cur[t] = 0]
                 ELSE LET b == MinOf(unit.todo[t])
                      IN  unit' = [unit EXCEPT !.todo[t] = @ \ {b}, !.cur[t] = b,
                                              !.pass[t] = 1, !.pc[t] = "seq_lock"]
           \/ LockChunkBufferWrite(t, "for_each")
        /\ UNCHANGED program_vars

\* wait_for_write_timeout, lines 283-296, and
\* ChunkWriteNotifier::wait_for_write_timeout, lines 375-394: the wait on the
\* condition variable gives the notifier's mutex up and takes it again when
\* it is notified, times out or wakes spuriously.
LockWaitForWriteTimeout(w) ==
    LET t == <<"waiter", w>>
    IN  /\ \/ /\ unit.pc[t] = "idle"
              /\ unit' = [Goto(unit, t, "wait_for_write_timeout")
                            EXCEPT !.notified = @ \ {w}, !.list = @ \ {w}]
           \/ TryLock(t, "wait_for_write_timeout", "push")
           \/ /\ unit.pc[t] = "push"
              /\ unit' = [Unlock(unit, t, NotifiersMutex, "wait_lock")
                            EXCEPT !.list = @ \cup {w}]
           \/ TryLock(t, "wait_lock", "check")
           \/ /\ unit.pc[t] = "check"
              /\ \/ unit' = Unlock(unit, t, PairMutex(w), "idle")
                 \/ unit' = Unlock(unit, t, PairMutex(w), "cv_wait")
           \/ unit.pc[t] = "cv_wait" /\ unit' = Goto(unit, t, "cv_reacquire")
           \/ TryLock(t, "cv_reacquire", "woken")
           \/ /\ unit.pc[t] = "woken"
              /\ \/ /\ w \in unit.notified
                    /\ unit' = Unlock(unit, t, PairMutex(w), "idle")
                 \/ /\ w \notin unit.notified
                    /\ \/ unit' = Unlock(unit, t, PairMutex(w), "idle")
                       \/ unit' = Goto(unit, t, "check")
        /\ UNCHANGED program_vars

\* close, lines 84-94
LockClose ==
    LET t == Closer
    IN  /\ \/ unit.pc[t] = "idle" /\ unit' = Goto(unit, t, "close")
           \/ TryLock(t, "close", "pop")
           \/ /\ unit.pc[t] = "pop"
              /\ IF unit.list = {}
                 THEN unit' = Unlock(unit, t, NotifiersMutex, "idle")
                 ELSE \E w \in unit.list :
                        unit' = [unit EXCEPT !.list = @ \ {w}, !.ncur[t] = w,
                                            !.pc[t] = "notify"]
           \/ TryLock(t, "notify", "notify_held")
           \/ /\ unit.pc[t] = "notify_held"
              /\ unit' = [Unlock(unit, t, PairMutex(unit.ncur[t]), "pop")
                            EXCEPT !.notified = @ \cup {unit.ncur[t]}, !.ncur[t] = 0]
        /\ UNCHANGED program_vars

NextLocks ==
    \/ \E p \in LockProducers : LockRegisterCallsite(p)
    \/ \E p \in LockProducers : LockWithSeqChunkBuffer(p)
    \/ LockWriteCompletedChunks
    \/ LockWriteAllChunks
    \/ \E w \in LockWaiters : LockWaitForWriteTimeout(w)
    \/ LockClose

SpecLocks == InitLocks /\ [][NextLocks]_vars

\* The thread is in lock() on a mutex that some thread holds.
Blocked(t) == Wants(t) # NoMutex /\ unit.owner[Wants(t)] # NoThread

\* The thread is blocked, and so are the next n threads on the chain from it
\* to the holder of the mutex it is in lock() on.
RECURSIVE BlockedChain(_, _)
BlockedChain(t, n) ==
    Blocked(t) /\ (n = 0 \/ BlockedChain(unit.owner[Wants(t)], n - 1))

\* C29: the threads never deadlock on the mutexes: from every thread that is
\* in lock(), the chain of holders ends at a thread that is not blocked (a
\* chain as long as the number of threads has run into a cycle), and a thread
\* waiting on a condition variable holds no mutex.
C29_NoDeadlock ==
    /\ \A t \in LockThreads : ~BlockedChain(t, Cardinality(LockThreads))
    /\ \A t \in LockThreads : unit.pc[t] = "cv_wait" => unit.held[t] = <<>>

\* write_completed_chunks holds the table and is in lock() on a buffer that
\* a producer holds inside append_record, while the other producer waits for
\* the table.
C29_Witness ==
    /\ unit.component = "locks"
    /\ unit.pc[Completed] = "seq_lock"
    /\ unit.owner[BufferMutex(unit.cur[Completed])] = <<"producer", unit.cur[Completed]>>
    /\ \E p \in LockProducers : unit.pc[<<"producer", p>>] = "create_seq_chunk_buffer"

\* The place of a mutex in the order callsite writer, chunk buffer table,
\* sequence buffer; 0 for the notifier mutexes.
LockRank(m) ==
    CASE m = CallsitesWriterMutex -> 1
      [] m = ChunkBuffersMutex -> 2
      [] m[1] = "buffer" -> 3
      [] OTHER -> 0

\* The callsite writer, table and buffer mutexes a thread holds, in the order
\* it took them.
HeldRanked(t) == SelectSeq(unit.held[t], LAMBDA m : LockRank(m) > 0)

\* C30 as stated: when a flusher holds more than one of the callsite writer,
\* chunk buffer table and sequence buffer mutexes, it took them in the order
\* callsite writer, chunk buffer table, sequence buffer.
C30_FlusherLockOrder ==
    \A t \in Flushers :
        \A i, j \in 1..Len(HeldRanked(t)) :
            i < j => LockRank(HeldRanked(t)[i]) < LockRank(HeldRanked(t)[j])

\* C30: when a flusher holds more than one of the callsite writer, chunk
\* buffer table and sequence buffer mutexes, it holds exactly two of them and
\* took the chunk buffer table first: the table and then the callsite writer
\* (write_completed_chunks calling flush_callsites), or the table and then a
\* sequence buffer. It never takes the table while it holds the callsite
\* writer.
C30_TableLockedFirst ==
    \A t \in Flushers :
        Len(HeldRanked(t)) >= 2 =>
            /\ Len(HeldRanked(t)) = 2
            /\ HeldRanked(t)[1] = ChunkBuffersMutex

\* write_completed_chunks is inside flush_callsites: it holds the table and,
\* taken after it, the callsite writer.
C30_Witness ==
    /\ unit.component = "locks"
    /\ unit.pc[Completed] = "flush"
    /\ unit.held[Completed] = <<ChunkBuffersMutex, CallsitesWriterMutex>>

-----------------------------------------------------------------------------
\* rfr/src/chunked/write.rs: wait_for_write_timeout with a timeout that
\* outlasts the clock, next to a producer that may or may not append and a
\* flusher that keeps running.

\* The wait begins early enough for the interval of its call time to end more
\* than the write time buffer before the clock's last time.
EarlyWaitStart(w) ==
    /\ EndMicros(from_timestamp_and_period(AbsNow, ChunkPeriodMicros))
            + WriteTimeBufferMicros < LastTime
    /\ WaitStart(w)

\* The deadline passes only when the clock has reached its last time and
\* write_completed_chunks has nothing left that it would write.
WaitDeadline(w) ==
    /\ now = LastTime
    /\ fpc = "idle"
    /\ \A k \in 1..Len(chunk_buffers) : ~is_completed(chunk_buffers[k], now)
    /\ WaitTimeout(w)

NextLongWait ==
    \/ Tick
    \/ Sleep
    \/ Stamp(1)
    \/ \E c \in CallsiteIds : TimelyAppend(1, c)
    \/ Flusher
    \/ EarlyWaitStart(1)
    \/ WaitReturn(1)
    \/ WaitDeadline(1)

SpecLongWait ==
    /\ Init
    /\ [][NextLongWait]_vars
    /\ WF_vars(Tick)
    /\ WF_vars(Sleep)
    /\ WF_vars(Flusher)
    /\ WF_vars(WaitReturn(1))
    /\ WF_vars(WaitDeadline(1))

\* C31: with the flusher running, time advancing and the writer not closed, a
\* wait_for_write_timeout call whose timeout is long enough eventually returns
\* Ok (Written), whether or not a record was appended in the interval of its
\* call time.
C31_LongWaitReturnsWritten ==
    (wpc[1] = "waiting") ~> (wpc[1] = "Written")

-----------------------------------------------------------------------------
\* rfr/src/chunked/write.rs: one ChunkWriteNotifier, the thread that waits
\* on it and the thread that signals it. Time is counted in ticks; remaining
\* is wait_until less the current instant.

MaxTimeoutTicks == 3

\* The spurious wake-ups of one wait.
MaxSpurious == 1

\* ChunkWriteNotifier::new, pushed to the list by wait_for_write_timeout
\* (lines 283-289); timeout_dur is the caller's timeout. at_return is the
\* notifier's value when the wait returned.
InitNotifier ==
    /\ InitWriter
    /\ \E timeout_dur \in 0..MaxTimeoutTicks :
        unit = [component |-> "notifier", written |-> "None", pc |-> "pushed",
                timeout_dur |-> timeout_dur, remaining |-> 0, result |-> "None",
                at_return |-> "None", spurious |-> 0]

\* ChunkWriteNotifier::notify, lines 361-369, called by notify_after_ts or by
\* close: it needs the notifier's mutex, which the waiter holds except before
\* its lock() and inside the wait on the condition variable.
NotifierNotify ==
    /\ unit.pc \in {"pushed", "wait_timeout", "returned"}
    /\ unit.written = "None"
    /\ \E val \in {"Written", "Closed"} : unit' = [unit EXCEPT !.written = val]
    /\ UNCHANGED program_vars

\* The clock advances by a tick.
NotifierElapse ==
    /\ unit.pc \in {"loop", "wait_timeout"}
    /\ unit.remaining > 0
    /\ unit' = [unit EXCEPT !.remaining = @ - 1]
    /\ UNCHANGED program_vars

\* lines 372-376: the mutex is locked and wait_until computed
NotifierWaitLock ==
    /\ unit.pc = "pushed"
    /\ unit' = [unit EXCEPT !.pc = "loop", !.remaining = unit.timeout_dur]
    /\ UNCHANGED program_vars

\* lines 378-381: the head of the loop breaks with Timeout when no time
\* remains, and waits otherwise
loop_head(written, remaining) ==
    IF remaining = 0 THEN "Timeout" ELSE "wait"

NotifierLoopHead ==
    /\ unit.pc = "loop"
    /\ LET step == loop_head(unit.written, unit.remaining)
       IN  unit' = IF step = "wait"
                   THEN [unit EXCEPT !.pc = "wait_timeout"]
                   ELSE [unit EXCEPT !.pc = "returned", !.result = step,
                                     !.at_return = unit.written]
    /\ UNCHANGED program_vars

\* lines 382-391: wait_timeout returns with the mutex, after notify_one, at
\* the deadline, or spuriously; a value is returned even when the wait timed
\* out.
NotifierWake ==
    /\ unit.pc = "wait_timeout"
    /\ \/ unit.written # "None"
       \/ unit.remaining = 0
       \/ unit.spurious < MaxSpurious
    /\ unit' =
        IF unit.written # "None"
        THEN [unit EXCEPT !.pc = "returned", !.result = unit.written,
                          !.at_return = unit.written]
        ELSE IF unit.remaining = 0
        THEN [unit EXCEPT !.pc = "returned", !.result = "Timeout", !.at_return = "None"]
        ELSE [unit EXCEPT !.pc = "loop", !.spurious = @ + 1]
    /\ UNCHANGED program_vars

NextNotifier ==
    \/ NotifierNotify
    \/ NotifierElapse
    \/ NotifierWaitLock
    \/ NotifierLoopHead
    \/ NotifierWake

SpecNotifier == InitNotifier /\ [][NextNotifier]_vars

\* C32: when the notifier has been signalled (Written or Closed) before
\* wait_for_write_timeout returns, the call returns that signal and not
\* Timeout, also when the signal came before the caller blocked and when the
\* deadline has passed as well.
C32_SignalWinsOverTimeout ==
    (unit.component = "notifier" /\ unit.pc = "returned" /\ unit.at_return # "None") =>
        unit.result = unit.at_return

-----------------------------------------------------------------------------
\* close empties the list of notifiers, so a notifier that is in the list of
\* a closed writer was pushed by a wait_for_write_timeout call that began
\* after close.
PushedAfterClose(w) ==
    closed /\ \E k \in 1..Len(notifiers) : notifiers[k].w = w

\* C33: a wait_for_write_timeout call that begins after close has completed
\* returns Closed; it does not return Timeout when its timeout expires.
C33_WaitAfterCloseIsClosed ==
    \A w \in Waiters :
        (PushedAfterClose(w) /\ wpc[w] \notin {"idle", "waiting"}) => wpc[w] = "Closed"

-----------------------------------------------------------------------------
\* rfr/src/chunked/write.rs: with_seq_chunk_buffer called by two threads
\* with timestamps in any order (the timestamp is the caller's argument), and
\* the flusher.

MaxAnyAppends == 3

MaxAnySecs == 1

AnyTimestamps == {[secs |-> secs, subsec_micros |-> 500000] : secs \in 0..MaxAnySecs}

\* The caller picks the timestamp of its next with_seq_chunk_buffer call.
StampAny(p) ==
    /\ ppc[p] = "idle"
    /\ \A q \in Producers : q < p => (ppc[q] # "idle" \/ local_buffer[q] # 0)
    /\ Len(accepted) + Cardinality({q \in Producers : ppc[q] = "stamped"}) < MaxAnyAppends
    /\ ppc' = [ppc EXCEPT ![p] = "stamped"]
    /\ \E timestamp \in AnyTimestamps : pts' = [pts EXCEPT ![p] = timestamp]
    /\ UNCHANGED <<now, writer_vars, callsite_vars, local_buffer, accepted, registered_before,
                   flusher_vars, ack_vars, seq_vars, unit>>

NextAnyOrder ==
    \/ Sleep
    \/ \E p \in Producers : StampAny(p)
    \/ \E p \in Producers : \E c \in CallsiteIds : with_seq_chunk_buffer(p, c)
    \/ Flusher

SpecAnyOrder == Init /\ [][NextAnyOrder]_vars

\* The seq_ids of a sequence of sequence chunks are all different.
DistinctSeqIds(seq_chunks) ==
    \A i, j \in 1..Len(seq_chunks) :
        i # j => seq_chunks[i].header.seq_id # seq_chunks[j].header.seq_id

\* C34: no chunk, in the table or on disk, holds two sequence chunks with
\* the same seq_id, whatever the order of the timestamps a thread passes to
\* with_seq_chunk_buffer.
C34_OneSeqChunkPerSeqId ==
    /\ \A k \in 1..Len(chunk_buffers) :
            DistinctSeqIds([i \in 1..Len(chunk_buffers[k].seq_chunks) |->
                                seq_buffers[chunk_buffers[k].seq_chunks[i]]])
    /\ \A path \in DOMAIN disk : DistinctSeqIds(disk[path].seq_chunks)

\* C35: the chunk buffer table holds at most one chunk buffer per interval,
\* and every sequence buffer of a chunk buffer has the chunk buffer's
\* interval.
C35_OneChunkBufferPerInterval ==
    /\ \A k, l \in 1..Len(chunk_buffers) :
            k # l => chunk_buffers[k].header.interval # chunk_buffers[l].header.interval
    /\ \A k \in 1..Len(chunk_buffers) :
            \A i \in 1..Len(chunk_buffers[k].seq_chunks) :
                seq_buffers[chunk_buffers[k].seq_chunks[i]].interval
                    = chunk_buffers[k].header.interval

\* Both threads have a sequence buffer in each of two chunk buffers.
C35_Witness ==
    /\ Len(chunk_buffers) = 2
    /\ Len(chunk_buffers[1].seq_chunks) >= 2
    /\ Len(chunk_buffers[2].seq_chunks) >= 1
    /\ \E i, j \in 1..Len(chunk_buffers[1].seq_chunks) :
            seq_buffers[chunk_buffers[1].seq_chunks[i]].header.seq_id
                # seq_buffers[chunk_buffers[1].seq_chunks[j]].header.seq_id

-----------------------------------------------------------------------------
\* rfr/src/chunked/sequence.rs: SeqId::current called by several threads.
\* next is the static NEXT_THREAD_ID, thread_id the thread-local THREAD_ID of
\* each thread, got the value a thread's fetch_add gave it, returned the
\* values its calls have returned.

MaxSeqIdCalls == 2

SeqThreads == {1, 2, 3}

INVALID == 0

InitSeqId ==
    /\ InitWriter
    /\ unit = [component |-> "seq_id", next |-> 1,
               thread_id |-> [t \in SeqThreads |-> INVALID],
               pc |-> [t \in SeqThreads |-> "idle"],
               got |-> [t \in SeqThreads |-> INVALID],
               calls |-> [t \in SeqThreads |-> 0],
               returned |-> [t \in SeqThreads |-> {}]]

\* The variant of fetch_add that leaves the counter as it is.
fetch_add_load(next) == [old |-> next, new |-> next]

\* AtomicU64::fetch_add(1, SeqCst): the old value, and the counter after it
fetch_add(next) == [old |-> next, new |-> next + 1]

\* lines 75-76 and 81-82: THREAD_ID is read and returned when it is valid
SeqIdCurrent(t) ==
    /\ unit.pc[t] = "idle"
    /\ unit.calls[t] < MaxSeqIdCalls
    /\ unit' = IF unit.thread_id[t] = INVALID
               THEN [unit EXCEPT !.pc[t] = "fetch_add", !.calls[t] = @ + 1]
               ELSE [unit EXCEPT !.calls[t] = @ + 1,
                                 !.returned[t] = @ \cup {unit.thread_id[t]}]
    /\ UNCHANGED program_vars

\* line 77
SeqIdFetchAdd(t) ==
    /\ unit.pc[t] = "fetch_add"
    /\ unit' = [unit EXCEPT !.got[t] = fetch_add(unit.next).old,
                            !.next = fetch_add(unit.next).new,
                            !.pc[t] = "set"]
    /\ UNCHANGED program_vars

\* lines 78-79
SeqIdSet(t) ==
    /\ unit.pc[t] = "set"
    /\ unit' = [unit EXCEPT !.thread_id[t] = unit.got[t],
                            !.returned[t] = @ \cup {unit.got[t]},
                            !.pc[t] = "idle"]
    /\ UNCHANGED program_vars

NextSeqId ==
    \/ \E t \in SeqThreads : SeqIdCurrent(t)
    \/ \E t \in SeqThreads : SeqIdFetchAdd(t)
    \/ \E t \in SeqThreads : SeqIdSet(t)

SpecSeqId == InitSeqId /\ [][NextSeqId]_vars

\* C36: the SeqId a thread obtains is never 0, is the same in all of the
\* thread's calls, and differs from the SeqId of every other thread, also
\* when threads obtain theirs at the same time.
C36_SeqIdPerThread ==
    unit.component = "seq_id" =>
        /\ \A t \in SeqThreads :
                /\ INVALID \notin unit.returned[t]
                /\ Cardinality(unit.returned[t]) <= 1
        /\ \A t, u \in SeqThreads :
                t # u => unit.returned[t] \cap unit.returned[u] = {}

\* Two threads are inside their first call at the same time, each with the
\* value its fetch_add gave it, and the third thread has made a second call.
C36_Witness ==
    /\ unit.component = "seq_id"
    /\ unit.pc[1] = "set"
    /\ unit.pc[2] = "set"
    /\ unit.calls[3] = 2
    /\ unit.returned[3] # {}

-----------------------------------------------------------------------------
\* rfr/src/chunked/write.rs: the directories of the chunk files. A directory
\* <root>/YYYY-MM/DD-HH is the hour since the epoch, the first part of
\* chunk_path.

MaxDirHours == 2

SecsPerHour == 3600

\* The seconds at which a writer is created or a chunk begins: the first,
\* a middle and the last second of each hour.
DirTimes ==
    {hour * SecsPerHour + sec : hour \in 0..MaxDirHours, sec \in {0, 1800, 3599}}

\* dir_path, lines 119-123
dir_path(secs) == chunk_path(secs)[1]

\* try_new, lines 74-75: ensure_dir(base_time) creates the directory of the
\* writer's base time. opened: the base times of the chunks whose file has
\* been opened; failed: writer_for_chunk found no directory for its file.
InitDir ==
    /\ InitWriter
    /\ \E base_time \in DirTimes :
        unit = [component |-> "ensure_dir", base_time |-> base_time,
                dirs |-> {dir_path(base_time)}, opened |-> {}, failed |-> {}]

\* writer_for_chunk, lines 298-300, for a chunk that begins at or after the
\* writer's base time: File::create makes the file when its directory
\* exists and fails otherwise, and the unwrap panics.
WriterForChunk ==
    /\ unit.failed = {}
    /\ \E chunk_time \in DirTimes :
        /\ chunk_time >= unit.base_time
        /\ unit' = IF dir_path(chunk_time) \in unit.dirs
                   THEN [unit EXCEPT !.opened = @ \cup {chunk_time}]
                   ELSE [unit EXCEPT !.failed = {chunk_time}]
    /\ UNCHANGED program_vars

NextDir == WriterForChunk

SpecDir == InitDir /\ [][NextDir]_vars

\* C37: whenever the flusher opens the file of a chunk, the directory
\* derived from the chunk's base time exists, also for a chunk in another
\* hour than the one in which the writer was created.
C37_ChunkDirectoryExists ==
    unit.component = "ensure_dir" => unit.failed = {}

-----------------------------------------------------------------------------
\* C38: an append_record call that drops its record because the resolver
\* returned None for a referenced iid leaves the buffer's objects, records,
\* record_count and header as they were; only missing_objects may grow.
C38_DroppedAppendKeepsBuffer ==
    [][(ncalls' = ncalls + 1 /\ last_none') =>
        /\ seq_buffers'[1].objects = seq_buffers[1].objects
        /\ seq_buffers'[1].records = seq_buffers[1].records
        /\ seq_buffers'[1].record_count = seq_buffers[1].record_count
        /\ seq_buffers'[1].header = seq_buffers[1].header
        /\ seq_buffers[1].missing_objects \subseteq seq_buffers'[1].missing_objects]_vars

-----------------------------------------------------------------------------
\* rfr-convert/src/perfetto.rs, write_perfetto: the wakes a task receives
\* while it is being polled.

\* lines 391-393, with the wake ids received since the last TaskPollStart
InitPollWakes ==
    /\ InitWriter
    /\ \E did \in TaskDids :
        unit = [component |-> "poll_wakes", did |-> did, state |-> TaskState("Unknown"),
                n |-> 0, data |-> [kind |-> "none"], in_poll |-> FALSE, wakes |-> <<>>]

\* one turn of `for record in &task_records.records`; `wakes` lists the
\* WakerWoken records since the TaskPollStart of the poll that is open, or
\* of the poll this record closes.
PollWakesRecord ==
    /\ unit.n < MaxTaskRecords
    /\ \E data \in TaskRecordData :
        LET step == task_state_step(unit.state, unit.did, data) IN
        unit' = [unit EXCEPT
                    !.state = step.state, !.data = data, !.n = @ + 1,
                    !.in_poll = IF data.kind = "TaskPollStart" THEN TRUE
                                ELSE IF data.kind \in {"TaskPollEnd", "TaskNew", "TaskDrop"}
                                THEN FALSE ELSE @,
                    !.wakes = IF data.kind \in {"TaskPollStart", "TaskNew", "TaskDrop"}
                              THEN <<>>
                              ELSE IF data.kind = "TaskPollEnd" /\ ~unit.in_poll THEN <<>>
                              ELSE IF data.kind = "WakerWoken" /\ unit.in_poll
                              THEN Append(@, data.wid) ELSE @]
    /\ UNCHANGED program_vars

NextPollWakes == PollWakesRecord

SpecPollWakes == InitPollWakes /\ [][NextPollWakes]_vars

\* C39: a task that received one or more WakerWoken records between a
\* TaskPollStart and the TaskPollEnd that follows it is IdleScheduled after
\* that TaskPollEnd, with the flow id of one of those wakes, however many
\* wakes there were.
C39_WokenDuringPollIsScheduled ==
    (unit.component = "poll_wakes" /\ unit.data.kind = "TaskPollEnd" /\ unit.wakes # <<>>) =>
        /\ unit.state.kind = "IdleScheduled"
        /\ \E i \in 1..Len(unit.wakes) : unit.state.wake_flow_id = WakeLink(unit.wakes[i])

-----------------------------------------------------------------------------
\* rfr/src/chunked/read.rs: the states of a ChunkLoader over a sequence of
\* ensure_header and ensure_chunk calls.

MaxLoaderCalls == 4

\* enum ChunkLoaderState, with the sequence chunks of a loaded chunk
ChunkLoaderState(kind, seq_chunks) == [kind |-> kind, seq_chunks |-> seq_chunks]

\* The files a loader is pointed at; the path may also name no file.
LoaderFiles == {file \in ChunkFiles : file.identifier = current_software_version}

\* impl From<ChunkPath> for ChunkLoader
InitLoader ==
    /\ InitWriter
    /\ \E file \in LoaderFiles, exists \in BOOLEAN :
          unit = [component |-> "loader", file |-> file, exists |-> exists,
                  state |-> ChunkLoaderState("Unloaded", <<>>),
                  prev |-> ChunkLoaderState("Unloaded", <<>>),
                  trace |-> <<>>, decode_failed |-> FALSE, panicked |-> FALSE]

\* Variant: ensure_header loads the header whatever the state is.
header_ensured_always(state) == ChunkLoaderState("Header", <<>>)

\* ensure_header, lines 108-117: the state after the call returns
header_ensured(state) ==
    IF state.kind = "Unloaded" THEN ChunkLoaderState("Header", <<>>) ELSE state

\* Variant: a failed decode resets the loader.
chunk_ensured_reset(state, file) ==
    IF state.kind \in {"Unloaded", "Header"}
    THEN LET read == read_chunk_from_io(file)
         IN  IF read.ok THEN ChunkLoaderState("Chunk", read.seq_chunks)
             ELSE ChunkLoaderState("Unloaded", <<>>)
    ELSE state

\* ensure_chunk, lines 121-137: the state after the call returns
chunk_ensured(state, file) ==
    IF state.kind \in {"Unloaded", "Header"}
    THEN LET read == read_chunk_from_io(file)
         IN  IF read.ok THEN ChunkLoaderState("Chunk", read.seq_chunks) ELSE state
    ELSE state

\* One call of ensure_header; File::open(..).unwrap() panics when the path
\* names no file.
EnsureHeader ==
    /\ Len(unit.trace) < MaxLoaderCalls
    /\ ~unit.panicked
    /\ unit' = IF unit.state.kind = "Unloaded" /\ ~unit.exists
               THEN [unit EXCEPT !.panicked = TRUE, !.prev = unit.state,
                                 !.decode_failed = FALSE,
                                 !.trace = Append(@, "ensure_header")]
               ELSE [unit EXCEPT !.state = header_ensured(unit.state),
                                 !.prev = unit.state, !.decode_failed = FALSE,
                                 !.trace = Append(@, "ensure_header")]
    /\ UNCHANGED program_vars

\* One call of ensure_chunk.
EnsureChunk ==
    /\ Len(unit.trace) < MaxLoaderCalls
    /\ ~unit.panicked
    /\ unit' = IF unit.state.kind \in {"Unloaded", "Header"} /\ ~unit.exists
               THEN [unit EXCEPT !.panicked = TRUE, !.prev = unit.state,
                                 !.decode_failed = FALSE,
                                 !.trace = Append(@, "ensure_chunk")]
               ELSE [unit EXCEPT !.state = chunk_ensured(unit.state, unit.file),
                                 !.prev = unit.state,
                                 !.decode_failed =
                                    /\ unit.state.kind \in {"Unloaded", "Header"}
                                    /\ ~read_chunk_from_io(unit.file).ok,
                                 !.trace = Append(@, "ensure_chunk")]
    /\ UNCHANGED program_vars

NextLoader ==
    \/ EnsureHeader
    \/ EnsureChunk

SpecLoader == InitLoader /\ [][NextLoader]_vars

\* Position of a loader state in the order Unloaded, Header, Chunk.
LoaderRank(state) ==
    CASE state.kind = "Unloaded" -> 0 [] state.kind = "Header" -> 1 [] OTHER -> 2

\* C40: a call of ensure_header or ensure_chunk never takes the loader to an
\* earlier state in the order Unloaded, Header, Chunk; ensure_header on a
\* loader that already has its header, and ensure_chunk on one that already
\* has its chunk, change nothing; an ensure_chunk whose decode fails leaves
\* the state as it was.
C40_LoaderOnlyMovesForward ==
    (unit.component = "loader" /\ unit.trace # <<>>) =>
        LET call == unit.trace[Len(unit.trace)] IN
        /\ LoaderRank(unit.state) >= LoaderRank(unit.prev)
        /\ (call = "ensure_header" /\ unit.prev.kind # "Unloaded") => unit.state = unit.prev
        /\ (call = "ensure_chunk" /\ unit.prev.kind = "Chunk") => unit.state = unit.prev
        /\ unit.decode_failed => unit.state = unit.prev

\* The header was loaded, asked for again, and the decode of the chunk then
\* failed.
C40_Witness ==
    /\ unit.component = "loader"
    /\ unit.trace = <<"ensure_header", "ensure_header", "ensure_chunk">>
    /\ unit.decode_failed
    /\ unit.state.kind = "Header"

====
